---- MODULE Spec2Model ----
(***************************************************************************)
(* Model of the material-graph reconstruction of JsonAsAsset               *)
(* (UMaterialGraph_Interface): FindEditorOnlyData, ConstructExpressions,   *)
(* PropagateExpressions, MaterialGraphNode_ExpressionWrapper and           *)
(* MaterialGraphNode_ConstructComments, run in that order over one import  *)
(* unit.  JSON objects are functions whose DOMAIN is the set of keys that  *)
(* are present; UObjects live in the heap Objects and are referred to by   *)
(* their index (0 is nullptr).                                             *)
(***************************************************************************)
EXTENDS Integers, Sequences, FiniteSets, TLC

VARIABLES
    AllJsonObjects,        \* the export records of the file being imported
    ParentClass,           \* class of Parent: "Material" or "MaterialFunction"
    bFilterByOuter,        \* FindEditorOnlyData's flag
    bCheckOuter,           \* PropagateExpressions' flag
    bSubgraph,             \* PropagateExpressions' flag
    phase,                 \* position of the import
    idx,                   \* position of the running loop in ExpressionNames
    EditorOnlyData,        \* result of FindEditorOnlyData (a sequence of 0 or 1 objects)
    ExpressionNames,       \* TArray<FName>
    Exports,               \* TMap<FName, FImportData>
    CreatedExpressionMap,  \* TMap<FName, UMaterialExpression*>
    Objects,               \* the UObject heap: the expressions made by NewObject
    ExpressionCollection,  \* Parent's ExpressionCollection.Expressions
    EditorComments,        \* Parent's ExpressionCollection.EditorComments
    Loadable,              \* asset paths StaticLoadObject finds at this moment
    log,                   \* calls made to the collaborators, in order
    CallStack,             \* the imports in progress, the innermost last
    RemoteExports,         \* what API_RequestExports answers for each path
    Outcome                \* what the last call of ConstructAsset left

vars == <<AllJsonObjects, ParentClass, bFilterByOuter, bCheckOuter, bSubgraph,
          phase, idx, EditorOnlyData, ExpressionNames, Exports,
          CreatedExpressionMap, Objects, ExpressionCollection, EditorComments,
          Loadable, log, CallStack, RemoteExports, Outcome>>

----------------------------------------------------------------------------
(* Bounds *)

MaxRecords == 2

----------------------------------------------------------------------------
(* JSON and container primitives *)

nullptr == 0

NAME_None == "None"

ParentName == "M"

EmptyObject == [k \in {} |-> 0]

HasField(Json, Key) == Key \in DOMAIN Json

\* FJsonObject::GetStringField: the empty string when the field is missing.
GetStringField(Json, Key) == IF HasField(Json, Key) THEN Json[Key] ELSE ""

\* FJsonObject::GetObjectField: an empty object when the field is missing.
GetObjectField(Json, Key) == IF HasField(Json, Key) THEN Json[Key] ELSE EmptyObject

\* FName(FString): the empty string is NAME_None.
FName(Str) == IF Str = "" THEN NAME_None ELSE Str

Contains(Map, Key) == Key \in DOMAIN Map

\* Faulty variant: a key that is already present keeps its value.
TMapAddIfAbsent(Map, Key, Value) ==
    [k \in DOMAIN Map \cup {Key} |-> IF k \in DOMAIN Map THEN Map[k] ELSE Value]

\* TMap::Add: a key that is already present has its value replaced.
TMapAdd(Map, Key, Value) ==
    [k \in DOMAIN Map \cup {Key} |-> IF k = Key THEN Value ELSE Map[k]]

\* b overrides a on the keys b has.
Override(a, b) ==
    [k \in DOMAIN a \cup DOMAIN b |-> IF k \in DOMAIN b THEN b[k] ELSE a[k]]

Range(s) == {s[i] : i \in 1..Len(s)}

Event(ev, node, key, res) == [ev |-> ev, node |-> node, key |-> key, res |-> res]

\* No call of ConstructAsset has been made.
NoOutcome ==
    [Path |-> "", Type |-> "", Return |-> FALSE, bSuccess |-> FALSE,
     OutObject |-> "nullptr", Crashed |-> FALSE, StackExhausted |-> FALSE]

----------------------------------------------------------------------------
(* FindEditorOnlyData *)

\* The records whose "Outer" is the given one.
FilterExportsByOuter(Outer) ==
    SelectSeq(AllJsonObjects, LAMBDA Object : GetStringField(Object, "Outer") = Outer)

FImportData(Type, Outer, Json) == [Type |-> Type, Outer |-> Outer, Json |-> Json]

\* "Type" + "EditorOnlyData", for the two units the importer handles.
EditorOnlyDataType(Type) ==
    IF Type = "Material" THEN "MaterialEditorOnlyData"
    ELSE IF Type = "MaterialFunction" THEN "MaterialFunctionEditorOnlyData"
    ELSE "EditorOnlyData"

IsEditorOnlyData(ExType, Type) == ExType = EditorOnlyDataType(Type)

\* Faulty variant: the editor-only data is kept and, without the "continue", indexed
\* like any other record.
FindEditorOnlyDataBodyNoContinue(acc, Object, Type, Outer) ==
    LET ExType == GetStringField(Object, "Type")
        Name   == GetStringField(Object, "Name")
    IN  [acc EXCEPT !.EditorOnlyData = IF IsEditorOnlyData(ExType, Type) THEN <<Object>> ELSE @,
                    !.ExpressionNames = Append(@, FName(Name)),
                    !.OutExports = TMapAdd(@, FName(Name), FImportData(ExType, Outer, Object))]

\* One iteration of the loop of FindEditorOnlyData over the record Object.
FindEditorOnlyDataBody(acc, Object, Type, Outer) ==
    LET ExType == GetStringField(Object, "Type")
        Name   == GetStringField(Object, "Name")
    IN  IF IsEditorOnlyData(ExType, Type)
        THEN [acc EXCEPT !.EditorOnlyData = <<Object>>]
        ELSE [acc EXCEPT !.ExpressionNames = Append(@, FName(Name)),
                         !.OutExports = TMapAdd(@, FName(Name), FImportData(ExType, Outer, Object))]

RECURSIVE FindEditorOnlyDataLoop(_, _, _, _)
FindEditorOnlyDataLoop(acc, Values, Type, Outer) ==
    IF Values = <<>> THEN acc
    ELSE FindEditorOnlyDataLoop(FindEditorOnlyDataBody(acc, Head(Values), Type, Outer),
                                Tail(Values), Type, Outer)

FindEditorOnlyDataResult(Type, Outer, FilterByOuter) ==
    FindEditorOnlyDataLoop(
        [EditorOnlyData |-> <<>>, ExpressionNames |-> <<>>, OutExports |-> EmptyObject],
        IF FilterByOuter THEN FilterExportsByOuter(Outer) ELSE AllJsonObjects,
        Type, Outer)

FindEditorOnlyData ==
    /\ phase = "Index"
    /\ LET r == FindEditorOnlyDataResult(ParentClass, ParentName, bFilterByOuter)
       IN  /\ EditorOnlyData' = r.EditorOnlyData
           /\ ExpressionNames' = r.ExpressionNames
           /\ Exports' = r.OutExports
    /\ phase' = "Create"
    /\ idx' = 1
    /\ UNCHANGED <<CallStack, RemoteExports, Outcome, AllJsonObjects, ParentClass, bFilterByOuter, bCheckOuter, bSubgraph,
                   CreatedExpressionMap, Objects, ExpressionCollection,
                   EditorComments, Loadable, log>>

----------------------------------------------------------------------------
(* CreateEmptyExpression and ConstructExpressions *)

\* Kinds CreateEmptyExpression skips without a word.
IgnoredExpressions == {"MaterialExpressionComposite", "MaterialExpressionComment"}

\* Kinds PropagateExpressions has a handler for.
Expressions ==
    {"MaterialExpressionAdd", "MaterialExpressionConstant",
     "MaterialExpressionMaterialFunctionCall",
     "MaterialExpressionCollectionParameter",
     "MaterialExpressionCurveAtlasRowParameter",
     "MaterialExpressionTextureSample",
     "MaterialExpressionTextureSampleParameter2D",
     "MaterialExpressionTextureSampleParameterSubUV",
     "MaterialExpressionFunctionOutput",
     "MaterialExpressionStaticComponentMaskParameter",
     "MaterialExpressionQualitySwitch",
     "MaterialExpressionFeatureLevelSwitch",
     "MaterialExpressionShadingPathSwitch",
     "MaterialExpressionSetMaterialAttributes",
     "MaterialExpressionLandscapeLayerBlend"}

\* The class a class of the engine is derived from.
SuperClass(Class) ==
    IF Class = "MaterialExpressionTextureSampleParameterSubUV"
        THEN "MaterialExpressionTextureSampleParameter2D"
    ELSE IF Class = "MaterialExpressionTextureSampleParameter2D"
        THEN "MaterialExpressionTextureSampleParameter"
    ELSE IF Class = "MaterialExpressionTextureSampleParameter"
        THEN "MaterialExpressionTextureSample"
    ELSE IF Class = "MaterialExpressionTextureSample"
        THEN "MaterialExpressionTextureBase"
    ELSE IF Class = "MaterialExpressionCurveAtlasRowParameter"
        THEN "MaterialExpressionScalarParameter"
    ELSE IF Class = "MaterialExpressionScalarParameter"
        THEN "MaterialExpressionParameter"
    ELSE IF Class = "MaterialExpressionStaticComponentMaskParameter"
        THEN "MaterialExpressionParameter"
    ELSE IF Class = "MaterialExpression" THEN "Object"
    ELSE IF Class = "Object" THEN "Object"
    ELSE "MaterialExpression"

\* Cast<Base>(Expression) is not null for an expression of the class.
RECURSIVE IsA(_, _)
IsA(Class, Base) ==
    IF Class = Base THEN TRUE
    ELSE IF Class = "Object" THEN FALSE
    ELSE IsA(SuperClass(Class), Base)

\* Classes FindObject<UClass> finds under /Script/Engine, /Script/Landscape
\* or /Script/InterchangeImport.
ScriptClasses ==
    Expressions \cup {"MaterialExpressionComposite", "MaterialExpressionComment",
                      "MaterialExpressionLength"}

\* FExpressionInput(): not connected.
FExpressionInput == [Expression |-> nullptr, OutputIndex |-> 0, Mask |-> 0]

NoAsset == "nullptr"

\* The fields every UMaterialExpression has, as the constructor leaves them.
BaseFields ==
    [MaterialExpressionEditorX |-> 0, Desc |-> "", Owner |-> "nullptr"]

\* FGuid(): the invalid GUID, all zero.
ZeroGuid == "00000000-0000-0000-0000-000000000000"

\* The strings FGuid::Parse accepts.
GuidStrings == {"G1", "G2"}

\* FGuid(FString): the GUID the string spells, invalidated when the string
\* does not parse.
FGuid(Str) == IF Str \in GuidStrings THEN Str ELSE ZeroGuid

\* The sizes of the Inputs arrays of the switches, members of the engine's
\* classes: EMaterialQualityLevel::Num, ERHIFeatureLevel::Num and
\* ERHIShadingPath::Num.
QualityLevelNum == 4

FeatureLevelNum == 5

ShadingPathNum == 3

\* The kinds whose Inputs is an array of a fixed size, and the size.
SwitchKinds ==
    {"MaterialExpressionQualitySwitch", "MaterialExpressionFeatureLevelSwitch",
     "MaterialExpressionShadingPathSwitch"}

InputsNum(Class) ==
    IF Class = "MaterialExpressionQualitySwitch" THEN QualityLevelNum
    ELSE IF Class = "MaterialExpressionFeatureLevelSwitch" THEN FeatureLevelNum
    ELSE ShadingPathNum

\* A switch as its constructor leaves it.  PastTheEnd is the memory
\* that follows the Inputs array: the writes made there, oldest first.
SwitchFields(Num) ==
    [Default |-> FExpressionInput, Inputs |-> [i \in 1..Num |-> FExpressionInput],
     PastTheEnd |-> <<>>]

\* FLayerBlendInput().
FLayerBlendInput ==
    [LayerName |-> NAME_None, LayerInput |-> FExpressionInput,
     HeightInput |-> FExpressionInput, PreviewWeight |-> 0]

\* The fields of a new object of the class, as the constructor leaves them.
ClassDefaultFields(Class) ==
    IF Class = "MaterialExpressionAdd"
        THEN [A |-> FExpressionInput, B |-> FExpressionInput, ConstA |-> 0, ConstB |-> 1]
    ELSE IF Class = "MaterialExpressionConstant"
        THEN [R |-> 0]
    ELSE IF Class = "MaterialExpressionMaterialFunctionCall"
        THEN [MaterialFunction |-> NoAsset, FunctionInputs |-> <<>>]
    ELSE IF Class = "MaterialExpressionCollectionParameter"
        THEN [Collection |-> NoAsset, ParameterName |-> NAME_None]
    ELSE IF Class = "MaterialExpressionCurveAtlasRowParameter"
        THEN [Curve |-> NoAsset, Atlas |-> NoAsset, InputTime |-> FExpressionInput]
    ELSE IF Class = "MaterialExpressionLength"
        THEN [Input |-> FExpressionInput]
    ELSE IF Class = "MaterialExpressionFunctionOutput"
        THEN [OutputName |-> "Result", Description |-> "", SortPriority |-> 0,
              A |-> FExpressionInput, bLastPreviewed |-> FALSE, Id |-> ZeroGuid]
    ELSE IF Class = "MaterialExpressionStaticComponentMaskParameter"
        THEN [Input |-> FExpressionInput,
              DefaultR |-> FALSE, DefaultG |-> FALSE, DefaultB |-> FALSE, DefaultA |-> FALSE,
              ParameterName |-> NAME_None, Group |-> NAME_None]
    ELSE IF Class = "MaterialExpressionTextureSample"
        THEN [Coordinates |-> FExpressionInput, ConstCoordinate |-> 0,
              Texture |-> NoAsset]
    ELSE IF Class = "MaterialExpressionTextureSampleParameter2D"
        THEN [Coordinates |-> FExpressionInput, ConstCoordinate |-> 0,
              Texture |-> NoAsset, ParameterName |-> NAME_None, Group |-> NAME_None]
    ELSE IF Class = "MaterialExpressionTextureSampleParameterSubUV"
        THEN [Coordinates |-> FExpressionInput, ConstCoordinate |-> 0,
              Texture |-> NoAsset, ParameterName |-> NAME_None, Group |-> NAME_None,
              bBlend |-> FALSE]
    ELSE IF Class = "MaterialExpressionComment"
        THEN [SizeX |-> 0, Text |-> ""]
    ELSE IF Class \in SwitchKinds
        THEN SwitchFields(InputsNum(Class))
    ELSE IF Class = "MaterialExpressionSetMaterialAttributes"
        THEN [Inputs |-> <<FExpressionInput>>]
    ELSE IF Class = "MaterialExpressionLandscapeLayerBlend"
        THEN [Layers |-> <<>>]
    ELSE EmptyObject

\* populated and wrapped count the runs of the dispatch and of the wrapper
\* over the object.
NewExpression(Class, Name) ==
    [Name |-> Name, Class |-> Class,
     Fields |-> Override(BaseFields, ClassDefaultFields(Class)),
     populated |-> 0, wrapped |-> 0]

\* NewObject(Parent, Class, Name): an object of that name in Parent is
\* constructed again in place, otherwise a new object is allocated.
NewObject(Heap, Class, Name) ==
    LET Existing == {i \in 1..Len(Heap) : Heap[i].Name = Name}
    IN  IF Existing # {}
        THEN LET i == CHOOSE i \in Existing : TRUE
             IN  [Heap |-> [Heap EXCEPT ![i] = NewExpression(Class, Name)], Ptr |-> i]
        ELSE [Heap |-> Append(Heap, NewExpression(Class, Name)), Ptr |-> Len(Heap) + 1]

\* The warning and the dialog for a kind without a handler.
MissingSupportEvents(Name, Type) ==
    IF Type \notin Expressions
    THEN <<Event("Warning", Name, Type, "MissingSupport")>>
         \o (IF Type # "" THEN <<Event("Dialog", Name, Type, "MissingSupport")>> ELSE <<>>)
    ELSE <<>>

\* Faulty variant: the ignore-list is looked at after the missing-support warning.
CreateEmptyExpressionWarnsFirst(Heap, Name, Type, NullClass) ==
    IF Type \in IgnoredExpressions
    THEN [Out |-> "Null", Heap |-> Heap, Ptr |-> nullptr,
          Events |-> MissingSupportEvents(Name, Type)]
    ELSE IF Type \in ScriptClasses
    THEN LET r == NewObject(Heap, Type, Name)
         IN  [Out |-> "Object", Heap |-> r.Heap, Ptr |-> r.Ptr,
              Events |-> MissingSupportEvents(Name, Type)]
    ELSE [Out |-> NullClass, Heap |-> Heap, Ptr |-> nullptr,
          Events |-> MissingSupportEvents(Name, Type)]

\* CreateEmptyExpression.  NullClass is what NewObject does with a null
\* class: "Fatal" (the engine's check fails) or "Null".
CreateEmptyExpression(Heap, Name, Type, NullClass) ==
    IF Type \in IgnoredExpressions
    THEN [Out |-> "Null", Heap |-> Heap, Ptr |-> nullptr, Events |-> <<>>]
    ELSE IF Type \in ScriptClasses
    THEN LET r == NewObject(Heap, Type, Name)
         IN  [Out |-> "Object", Heap |-> r.Heap, Ptr |-> r.Ptr,
              Events |-> MissingSupportEvents(Name, Type)]
    ELSE [Out |-> NullClass, Heap |-> Heap, Ptr |-> nullptr,
          Events |-> MissingSupportEvents(Name, Type)]

\* Faulty variant: the expression is added to the map without the null check.
AddCreatedUnchecked(Map, Name, Ex) == TMapAdd(Map, Name, Ex)

\* The end of the loop body of ConstructExpressions: a null expression is
\* not added to the map.
AddCreated(Map, Name, Ex) ==
    IF Ex = nullptr THEN Map ELSE TMapAdd(Map, Name, Ex)

\* The search of ConstructExpressions for the export of a name.
FindExport(Map, Name, Outer) ==
    Contains(Map, Name) /\ Map[Name].Outer = FName(Outer)

\* One iteration of the loop of ConstructExpressions.
ConstructExpressions ==
    /\ phase = "Create"
    /\ idx <= Len(ExpressionNames)
    /\ \E NullClass \in {"Fatal", "Null"} :
         LET Name == ExpressionNames[idx]
         IN  IF ~FindExport(Exports, Name, ParentName)
             THEN /\ idx' = idx + 1
                  /\ UNCHANGED <<phase, CreatedExpressionMap, Objects, log>>
             ELSE LET Ex == CreateEmptyExpression(Objects, Name, Exports[Name].Type, NullClass)
                  IN  /\ log' = log \o Ex.Events
                      /\ Objects' = Ex.Heap
                      /\ IF Ex.Out = "Fatal"
                         THEN /\ phase' = "Crashed"
                              /\ UNCHANGED <<idx, CreatedExpressionMap>>
                         ELSE /\ idx' = idx + 1
                              /\ phase' = phase
                              /\ CreatedExpressionMap' =
                                   AddCreated(CreatedExpressionMap, Name, Ex.Ptr)
    /\ UNCHANGED <<CallStack, RemoteExports, Outcome, AllJsonObjects, ParentClass, bFilterByOuter, bCheckOuter, bSubgraph,
                   EditorOnlyData, ExpressionNames, Exports, ExpressionCollection,
                   EditorComments, Loadable>>

\* Faulty variant: the loop is left one name early.
ConstructExpressionsReturnEarly ==
    /\ phase = "Create"
    /\ idx >= Len(ExpressionNames)
    /\ phase' = "Wire"
    /\ idx' = 1
    /\ UNCHANGED <<CallStack, RemoteExports, Outcome, AllJsonObjects, ParentClass, bFilterByOuter, bCheckOuter, bSubgraph,
                   EditorOnlyData, ExpressionNames, Exports, CreatedExpressionMap,
                   Objects, ExpressionCollection, EditorComments, Loadable, log>>

\* ConstructExpressions returns the map and PropagateExpressions is called.
ConstructExpressionsReturn ==
    /\ phase = "Create"
    /\ idx > Len(ExpressionNames)
    /\ phase' = "Wire"
    /\ idx' = 1
    /\ UNCHANGED <<CallStack, RemoteExports, Outcome, AllJsonObjects, ParentClass, bFilterByOuter, bCheckOuter, bSubgraph,
                   EditorOnlyData, ExpressionNames, Exports, CreatedExpressionMap,
                   Objects, ExpressionCollection, EditorComments, Loadable, log>>

----------------------------------------------------------------------------
(* Expression inputs *)

\* A JSON null value.
JsonNull == [IsNull |-> TRUE]

IsNull(Value) == HasField(Value, "IsNull")

\* An object name "Class'Outer:Name'" is the tuple <<Class, Outer, Name>>;
\* the export name of the subobject is its last part.
GetExportNameOfSubobject(ObjectName) == FName(ObjectName[3])

\* GetExpressionName, with OverrideParameterName = "Expression".
GetExpressionName(JsonProperties) ==
    IF ~HasField(JsonProperties, "Expression") \/ IsNull(JsonProperties["Expression"])
    THEN FName(GetStringField(JsonProperties, "ExpressionName"))
    ELSE LET ExpressionObject == JsonProperties["Expression"]
         IN  IF HasField(ExpressionObject, "ObjectName")
             THEN GetExportNameOfSubobject(ExpressionObject["ObjectName"])
             ELSE NAME_None

\* PopulateExpressionInput with the default Type: the expression and the
\* output index and mask the JSON has.
PopulateExpressionInput(JsonProperties, Expression) ==
    [Expression  |-> Expression,
     OutputIndex |-> IF HasField(JsonProperties, "OutputIndex")
                     THEN JsonProperties["OutputIndex"] ELSE FExpressionInput.OutputIndex,
     Mask        |-> IF HasField(JsonProperties, "Mask")
                     THEN JsonProperties["Mask"] ELSE FExpressionInput.Mask]

\* Faulty variant: only an expression declared before the one being wired
\* is found (the lookup of an import that creates and wires in one pass).
ResolveExpressionInputDeclaredBefore(AsObject, Created) ==
    LET ExpressionName == GetExpressionName(AsObject)
    IN  IF Contains(Created, ExpressionName)
           /\ \E k \in 1..(idx - 1) : ExpressionNames[k] = ExpressionName
        THEN PopulateExpressionInput(AsObject, Created[ExpressionName])
        ELSE FExpressionInput

\* The "Type" values with a branch in PopulateExpressionInput.
InputVariants == {"Color", "Scalar", "Vector"}

\* PopulateExpressionInput with a Type: the branch of a variant writes
\* UseConstant and Constant through a pointer to the local FExpressionInput
\* cast to the variant's struct, which is larger than the local, and copies
\* the FExpressionInput part back.  The write is out of bounds: the call
\* returns the FExpressionInput part, without the constants, or the stack
\* is corrupted.  The result is the set of the outcomes.
PopulateExpressionInputOfType(JsonProperties, Expression, Type) ==
    IF Type \in InputVariants
          /\ (HasField(JsonProperties, "UseConstant") \/ HasField(JsonProperties, "Constant"))
    THEN {PopulateExpressionInput(JsonProperties, Expression), [StackCorrupted |-> TRUE]}
    ELSE {PopulateExpressionInput(JsonProperties, Expression)}

\* The lookup of an input's expression in the created map.
ResolveExpressionInput(AsObject, Created) ==
    LET ExpressionName == GetExpressionName(AsObject)
    IN  IF Contains(Created, ExpressionName)
        THEN PopulateExpressionInput(AsObject, Created[ExpressionName])
        ELSE FExpressionInput

CreateExpressionInput(JsonProperties, Created, PropertyName) ==
    IF HasField(JsonProperties, PropertyName)
    THEN ResolveExpressionInput(JsonProperties[PropertyName], Created)
    ELSE FExpressionInput

\* FFunctionExpressionInput(): no id, not connected.
FFunctionExpressionInput == [ExpressionInputId |-> "", Input |-> FExpressionInput]

PopulateFuncExpressionInput(JsonProperties, Created) ==
    [ExpressionInputId |-> IF HasField(JsonProperties, "ExpressionInputId")
                           THEN JsonProperties["ExpressionInputId"]
                           ELSE FFunctionExpressionInput.ExpressionInputId,
     Input |-> IF HasField(JsonProperties, "Input")
               THEN ResolveExpressionInput(JsonProperties["Input"], Created)
               ELSE FFunctionExpressionInput.Input]

----------------------------------------------------------------------------
(* External references *)

\* An object path "Package.Index" is the tuple <<Package, Index>>; Split(".")
\* keeps the left part.
SplitObjectPath(ObjectPath) == ObjectPath[1]

AssetPath(PackageIndex) == SplitObjectPath(PackageIndex["ObjectPath"])

\* LoadObject: the field becomes the object found at the path, or nullptr.
\* st is the handler's state [Fields, Events, Loadable].
LoadObject(st, Name, PackageIndex, Field) ==
    LET Found == IF AssetPath(PackageIndex) \in st.Loadable
                 THEN AssetPath(PackageIndex) ELSE NoAsset
    IN  [st EXCEPT !.Fields = Override(@, [k \in {Field} |-> Found]),
                   !.Events = Append(@, Event("LoadObject", Name, Field, Found))]

\* HandleReference: the collaborator answers Hook.Ok, and has imported the
\* asset or not (Hook.Imported).
HandleReference(st, Name, ObjectPath, Field, Hook) ==
    [st EXCEPT !.Loadable = IF Hook.Imported THEN @ \cup {ObjectPath} ELSE @,
               !.Events = Append(@, Event("HandleReference", Name, Field,
                                          IF Hook.Ok THEN "true" ELSE "false"))]

AppendNotification(st, Name, Field) ==
    [st EXCEPT !.Events = Append(@, Event("Notification", Name, Field, "Missing"))]

\* Faulty variant: the load is tried again whatever HandleReference answered.
LoadOrHandleReferenceRetriesAlways(st, Name, Properties, Field, Hook) ==
    IF ~HasField(Properties, Field) THEN st
    ELSE LET s1 == LoadObject(st, Name, Properties[Field], Field)
         IN  IF s1.Fields[Field] # NoAsset THEN s1
             ELSE LET s2 == HandleReference(s1, Name, AssetPath(Properties[Field]), Field, Hook)
                  IN  LoadObject(IF ~Hook.Ok THEN AppendNotification(s2, Name, Field) ELSE s2,
                                 Name, Properties[Field], Field)

\* The load of MaterialFunction and of Collection: load, and when the field
\* is still null ask HandleReference, then notify or load again.
LoadOrHandleReference(st, Name, Properties, Field, Hook) ==
    IF ~HasField(Properties, Field) THEN st
    ELSE LET s1 == LoadObject(st, Name, Properties[Field], Field)
         IN  IF s1.Fields[Field] # NoAsset THEN s1
             ELSE LET s2 == HandleReference(s1, Name, AssetPath(Properties[Field]), Field, Hook)
                  IN  IF ~Hook.Ok
                      THEN AppendNotification(s2, Name, Field)
                      ELSE LoadObject(s2, Name, Properties[Field], Field)

\* The load of Curve, Atlas, Declaration, ...: one load.
LoadOnly(st, Name, Properties, Field) ==
    IF ~HasField(Properties, Field) THEN st
    ELSE LoadObject(st, Name, Properties[Field], Field)

----------------------------------------------------------------------------
(* PropagateExpressions *)

\* Faulty variant: a number whose key is missing is set to zero.
TryGetFieldOrZero(Fields, Properties, Key) ==
    IF HasField(Properties, Key)
    THEN Override(Fields, [k \in {Key} |-> Properties[Key]])
    ELSE IF Key \in {"ConstA", "ConstB", "SortPriority", "R", "ConstCoordinate"}
    THEN Override(Fields, [k \in {Key} |-> 0])
    ELSE Fields

\* A number or string field: written if the JSON has the key.
TryGetField(Fields, Properties, Key) ==
    IF HasField(Properties, Key)
    THEN Override(Fields, [k \in {Key} |-> Properties[Key]]) ELSE Fields

SetField(Fields, Key, Value) == Override(Fields, [k \in {Key} |-> Value])

RECURSIVE FuncExpressionInputs(_, _)
FuncExpressionInputs(Values, Created) ==
    IF Values = <<>> THEN <<>>
    ELSE <<PopulateFuncExpressionInput(Head(Values), Created)>>
         \o FuncExpressionInputs(Tail(Values), Created)

\* FJsonValue::AsObject: the object, or an empty object for a value that
\* is not one.
AsObject(Value) == IF IsNull(Value) THEN EmptyObject ELSE Value

\* Faulty variant: the index moves on only after a write, so the inputs
\* that resolve are packed at the front.
NextInputIndexAfterWrite(i, Written) == IF Written THEN i + 1 ELSE i

\* "i++" at the end of the body of the loop over the Inputs array.
NextInputIndex(i, Written) == i + 1

\* "Inputs[i] = Input" with the zero-based i of the code at i - 1: a write
\* inside the array, or to the memory that follows it.
WriteInput(Fields, i, Input) ==
    IF i <= Len(Fields["Inputs"])
    THEN SetField(Fields, "Inputs", [Fields["Inputs"] EXCEPT ![i] = Input])
    ELSE SetField(Fields, "PastTheEnd",
                  Append(Fields["PastTheEnd"], [Index |-> i, Input |-> Input]))

\* The loop over the Inputs array from its entry k on, with i the index
\* of the destination: an entry whose expression was created is written
\* at i, and i moves on after every entry.
RECURSIVE WriteInputs(_, _, _, _, _)
WriteInputs(Fields, Values, k, i, Created) ==
    IF k > Len(Values) THEN Fields
    ELSE LET InputObject == AsObject(Values[k])
             InputExpressionName == GetExpressionName(InputObject)
             Written == Contains(Created, InputExpressionName)
         IN  WriteInputs(IF Written
                         THEN WriteInput(Fields, i,
                                  PopulateExpressionInput(InputObject,
                                                          Created[InputExpressionName]))
                         ELSE Fields,
                         Values, k + 1, NextInputIndex(i, Written), Created)

\* TArray::SetNumZeroed: the first Num elements, with zeroed elements added
\* when there were fewer.
SetNumZeroed(Array, Num) ==
    [i \in 1..Num |-> IF i <= Len(Array) THEN Array[i] ELSE FExpressionInput]

\* "if (TryGetObjectField(Key) && Contains(name)) Field = Populate...": an
\* input that is written only when its expression was created.
WireIfCreated(Fields, Properties, Created, Key) ==
    IF HasField(Properties, Key)
       /\ Contains(Created, GetExpressionName(Properties[Key]))
    THEN SetField(Fields, Key, ResolveExpressionInput(Properties[Key], Created))
    ELSE Fields

\* The FLayerBlendInput built from one entry of Layers.
LayerBlendInput(Layers, Created) ==
    WireIfCreated(
      WireIfCreated(
        TryGetField(TryGetField(FLayerBlendInput, Layers, "LayerName"),
                    Layers, "PreviewWeight"),
        Layers, Created, "LayerInput"),
      Layers, Created, "HeightInput")

\* The loop over the Layers array: a null entry is passed over, every
\* other entry adds its FLayerBlendInput at the end of the array.
RECURSIVE AddLayers(_, _, _)
AddLayers(Array, Values, Created) ==
    IF Values = <<>> THEN Array
    ELSE AddLayers(IF IsNull(Head(Values)) THEN Array
                   ELSE Append(Array, LayerBlendInput(Head(Values), Created)),
                   Tail(Values), Created)

\* The branch of the if/else chain for the kind.  st is [Fields, Events,
\* Loadable]; a kind without a branch leaves it as it is.
KindHandler(st, Name, Type, Properties, Created, Hook) ==
    IF Type = "MaterialExpressionConstant"
    THEN [st EXCEPT !.Fields = TryGetField(@, Properties, "R")]
    ELSE IF Type = "MaterialExpressionAdd"
    THEN [st EXCEPT !.Fields =
            TryGetField(
              TryGetField(
                SetField(SetField(@, "A", CreateExpressionInput(Properties, Created, "A")),
                         "B", CreateExpressionInput(Properties, Created, "B")),
                Properties, "ConstA"),
              Properties, "ConstB")]
    ELSE IF Type = "MaterialExpressionMaterialFunctionCall"
    THEN LET s1 == LoadOrHandleReference(st, Name, Properties, "MaterialFunction", Hook)
         IN  IF HasField(Properties, "FunctionInputs")
             THEN [s1 EXCEPT !.Fields = SetField(@, "FunctionInputs",
                       FuncExpressionInputs(Properties["FunctionInputs"], Created))]
             ELSE s1
    ELSE IF Type = "MaterialExpressionCollectionParameter"
    THEN LET s1 == LoadOrHandleReference(st, Name, Properties, "Collection", Hook)
         IN  [s1 EXCEPT !.Fields = TryGetField(@, Properties, "ParameterName")]
    ELSE IF Type = "MaterialExpressionCurveAtlasRowParameter"
    THEN LET s1 == LoadOnly(st, Name, Properties, "Curve")
             s2 == LoadOnly(s1, Name, Properties, "Atlas")
         IN  IF HasField(Properties, "InputTime")
                /\ Contains(Created, GetExpressionName(Properties["InputTime"]))
             THEN [s2 EXCEPT !.Fields = SetField(@, "InputTime",
                       ResolveExpressionInput(Properties["InputTime"], Created))]
             ELSE s2
    ELSE IF Type = "MaterialExpressionFunctionOutput"
    THEN [st EXCEPT !.Fields =
            SetField(
              TryGetField(
                SetField(
                  TryGetField(TryGetField(TryGetField(@, Properties, "OutputName"),
                                          Properties, "Description"),
                              Properties, "SortPriority"),
                  "A", CreateExpressionInput(Properties, Created, "A")),
                Properties, "bLastPreviewed"),
              "Id", FGuid(GetStringField(Properties, "ID")))]
    ELSE IF Type = "MaterialExpressionStaticComponentMaskParameter"
    THEN LET Wired == IF HasField(Properties, "Input")
                         /\ Contains(Created, GetExpressionName(Properties["Input"]))
                      THEN SetField(st.Fields, "Input",
                                    ResolveExpressionInput(Properties["Input"], Created))
                      ELSE st.Fields
             Reset == SetField(SetField(SetField(SetField(Wired, "DefaultR", FALSE),
                                                 "DefaultG", FALSE),
                                        "DefaultB", FALSE),
                               "DefaultA", FALSE)
         IN  [st EXCEPT !.Fields =
                 TryGetField(TryGetField(TryGetField(TryGetField(Reset, Properties, "DefaultR"),
                                                     Properties, "DefaultG"),
                                         Properties, "DefaultB"),
                             Properties, "DefaultA")]
    ELSE IF Type = "MaterialExpressionTextureSampleParameterSubUV"
    THEN [st EXCEPT !.Fields = TryGetField(@, Properties, "bBlend"),
                    !.Events = Append(@, Event("KindHandler", Name, Type, ""))]
    ELSE IF Type = "MaterialExpressionQualitySwitch"
    THEN LET F == SetField(st.Fields, "Default",
                           CreateExpressionInput(Properties, Created, "Default"))
         IN  [st EXCEPT !.Fields =
                 IF HasField(Properties, "Inputs")
                 THEN WriteInputs(F, Properties["Inputs"], 1, 1, Created) ELSE F]
    ELSE IF Type \in {"MaterialExpressionFeatureLevelSwitch",
                      "MaterialExpressionShadingPathSwitch"}
    THEN LET F == WireIfCreated(st.Fields, Properties, Created, "Default")
         IN  [st EXCEPT !.Fields =
                 IF HasField(Properties, "Inputs")
                 THEN WriteInputs(F, Properties["Inputs"], 1, 1, Created) ELSE F]
    ELSE IF Type = "MaterialExpressionSetMaterialAttributes"
    THEN [st EXCEPT !.Fields =
             IF HasField(Properties, "Inputs")
             THEN WriteInputs(
                      SetField(@, "Inputs",
                               SetNumZeroed(@["Inputs"], Len(Properties["Inputs"]))),
                      Properties["Inputs"], 1, 1, Created)
             ELSE @]
    ELSE IF Type = "MaterialExpressionLandscapeLayerBlend"
    THEN [st EXCEPT !.Fields =
             IF HasField(Properties, "Layers")
             THEN SetField(@, "Layers", AddLayers(@["Layers"], Properties["Layers"], Created))
             ELSE @]
    ELSE st

\* Faulty variant: the base kind is tested by the export's Type string.
SatisfiesBaseKindByType(Class, Type, Base) == Type = Base

\* "if (Cast<Base>(Expression))": the test of a base kind, on the class of
\* the expression; the export's Type is not looked at.
SatisfiesBaseKind(Class, Type, Base) == IsA(Class, Base)

\* The handler of the parent class TextureSample.
TextureSampleHandler(st, Name, Properties, Created) ==
    LET s1 == [st EXCEPT !.Events = Append(@, Event("BaseHandler", Name,
                                                    "MaterialExpressionTextureSample", "")),
                         !.Fields = TryGetField(@, Properties, "ConstCoordinate")]
    IN  IF HasField(Properties, "Coordinates")
           /\ Contains(Created, GetExpressionName(Properties["Coordinates"]))
        THEN [s1 EXCEPT !.Fields = SetField(@, "Coordinates",
                  ResolveExpressionInput(Properties["Coordinates"], Created))]
        ELSE s1

\* The handler of the parent class TextureSampleParameter.
TextureSampleParameterHandler(st, Name, Properties) ==
    [st EXCEPT !.Events = Append(@, Event("BaseHandler", Name,
                                          "MaterialExpressionTextureSampleParameter", "")),
               !.Fields = TryGetField(TryGetField(@, Properties, "ParameterName"),
                                      Properties, "Group")]

\* The handlers of the parent classes, after the chain of the kinds.
ParentClassHandlers(st, Name, Class, Type, Properties, Created) ==
    LET s1 == IF SatisfiesBaseKind(Class, Type, "MaterialExpressionTextureSample")
              THEN TextureSampleHandler(st, Name, Properties, Created) ELSE st
    IN  IF SatisfiesBaseKind(Class, Type, "MaterialExpressionTextureSampleParameter")
        THEN TextureSampleParameterHandler(s1, Name, Properties) ELSE s1

\* "if (Cast<UMaterial>(Parent)) RecompileMaterial(...)" after the load of
\* the texture: the material is recompiled and saved.
RecompileMaterial(st, Name) ==
    IF ParentClass = "Material"
    THEN [st EXCEPT !.Events = Append(@, Event("RecompileMaterial", Name, "Texture", ""))]
    ELSE st

\* "if (Cast<UMaterial>(Parent)) RecacheUniformExpressions(...)" at the end
\* of the part for a texture expression.
RecacheUniformExpressions(st, Name) ==
    IF ParentClass = "Material"
    THEN [st EXCEPT !.Events = Append(@, Event("RecacheUniformExpressions", Name, "", ""))]
    ELSE st

\* The parts of MaterialGraphNode_ExpressionWrapper for a parameter and for
\* a texture expression.
ExpressionWrapperBases(st, Name, Class, Json) ==
    LET s1 == IF IsA(Class, "MaterialExpressionParameter")
              THEN [st EXCEPT !.Fields = TryGetField(TryGetField(@, Json, "ParameterName"),
                                                     Json, "Group")]
              ELSE st
    IN  IF IsA(Class, "MaterialExpressionTextureBase")
        THEN RecacheUniformExpressions(
                 IF HasField(Json, "Texture")
                 THEN RecompileMaterial(LoadOnly(s1, Name, Json, "Texture"), Name)
                 ELSE s1,
                 Name)
        ELSE s1

\* The body of the loop of PropagateExpressions for one expression, up to
\* the parent classes: the chain of the kinds, then the parent classes.
PopulateExpression(st, Name, Class, Type, Properties, Created, Hook) ==
    ParentClassHandlers(KindHandler(st, Name, Type, Properties, Created, Hook),
                        Name, Class, Type, Properties, Created)

\* Faulty variant: the description is a count kept across the calls (the
\* number of collaborator calls made so far).
MaterialGraphNode_ExpressionWrapperCounting(Fields, Json) ==
    SetField(
      SetField(TryGetField(Fields, Json, "MaterialExpressionEditorX"), "Owner", ParentName),
      "Desc", Len(log))

\* MaterialGraphNode_ExpressionWrapper: the fields every expression has.
MaterialGraphNode_ExpressionWrapper(Fields, Json) ==
    TryGetField(
      SetField(TryGetField(Fields, Json, "MaterialExpressionEditorX"), "Owner", ParentName),
      Json, "Desc")

\* Faulty variant: the expression is put at the front of the collection.
AddExpressionAtFront(Collection, Expression) ==
    IF ParentClass = "Material" THEN <<Expression>> \o Collection
    ELSE IF Expression \in Range(Collection) THEN Collection
    ELSE <<Expression>> \o Collection

\* Expressions.Add for a material, AddExpression for a material function.
AddExpression(Collection, Expression) ==
    IF ParentClass = "Material" THEN Append(Collection, Expression)
    ELSE IF Expression \in Range(Collection) THEN Collection
    ELSE Append(Collection, Expression)

\* Faulty variant: the expression is added for a subgraph too.
AttachAlways(Collection, Expression) == AddExpression(Collection, Expression)

\* "if (!bSubgraph)": the expression is added unless this is a subgraph.
Attach(Collection, Expression) ==
    IF bSubgraph THEN Collection ELSE AddExpression(Collection, Expression)

\* Faulty variant: no export's "Outer" is looked at.
OuterMismatchIgnored(Json) == FALSE

\* The check of the export's "Outer" against the parent's name.
OuterMismatch(Json) ==
    HasField(Json, "Outer") /\ Json["Outer"] # ParentName

\* Faulty variant: a skipped name ends the loop ("break" for "continue").
ContinueBreaks(Index, Skipped) ==
    IF Skipped THEN Len(ExpressionNames) + 1 ELSE Index + 1

\* Faulty variant: a skipped name is looked at again.
ContinueRepeats(Index, Skipped) == IF Skipped THEN Index ELSE Index + 1

\* Where the loop of PropagateExpressions goes on after a name: "continue"
\* and the end of the body both go to the next name.
Continue(Index, Skipped) == Index + 1

\* The handlers wrote past the end of an array of the expression: the
\* behaviour is undefined, the import goes on over the overwritten memory
\* or the editor crashes.
WroteOutOfBounds(Before, After) ==
    /\ HasField(After, "PastTheEnd")
    /\ Len(After["PastTheEnd"]) > (IF HasField(Before, "PastTheEnd")
                                   THEN Len(Before["PastTheEnd"]) ELSE 0)

\* One iteration of the loop of PropagateExpressions.
PropagateExpressions ==
    /\ phase = "Wire"
    /\ idx <= Len(ExpressionNames)
    /\ idx' = Continue(idx, ~Contains(CreatedExpressionMap, ExpressionNames[idx])
                            \/ (bCheckOuter /\ OuterMismatch(Exports[ExpressionNames[idx]].Json)))
    /\ \E Hook \in [Ok : BOOLEAN, Imported : BOOLEAN] :
         LET Name == ExpressionNames[idx]
             Type == Exports[Name]
             Properties == GetObjectField(Type.Json, "Properties")
         IN  IF ~Contains(CreatedExpressionMap, Name)
                \/ (bCheckOuter /\ OuterMismatch(Type.Json))
             THEN UNCHANGED <<phase, Objects, ExpressionCollection, Loadable, log>>
             ELSE LET Expression == CreatedExpressionMap[Name]
                      Class == Objects[Expression].Class
                      h == PopulateExpression([Fields |-> Objects[Expression].Fields,
                                               Events |-> <<Event("Populate", Name, Type.Type, "")>>,
                                               Loadable |-> Loadable],
                                              Name, Class, Type.Type, Properties,
                                              CreatedExpressionMap, Hook)
                      a == [h EXCEPT !.Events =
                               IF bSubgraph THEN @
                               ELSE Append(@, Event("AddExpression", Name, Type.Type, ""))]
                      w == ExpressionWrapperBases(
                               [a EXCEPT !.Fields = MaterialGraphNode_ExpressionWrapper(@, Properties)],
                               Name, Class, Properties)
                  IN  /\ Objects' = [Objects EXCEPT ![Expression] =
                            [@ EXCEPT !.Fields = w.Fields,
                                      !.populated = @ + 1,
                                      !.wrapped = @ + 1]]
                      /\ ExpressionCollection' = Attach(ExpressionCollection, Expression)
                      /\ Loadable' = w.Loadable
                      /\ log' = log \o w.Events
                                \o <<Event("ExpressionWrapper", Name, Type.Type, "")>>
                      /\ phase' \in IF WroteOutOfBounds(Objects[Expression].Fields, w.Fields)
                                    THEN {phase, "Crashed"} ELSE {phase}
    /\ UNCHANGED <<CallStack, RemoteExports, Outcome, AllJsonObjects, ParentClass, bFilterByOuter, bCheckOuter, bSubgraph,
                   EditorOnlyData, ExpressionNames, Exports, CreatedExpressionMap,
                   EditorComments>>

\* The loop of ConstructExpressions run to its end over Names, from the heap
\* and the map of acc; a null class makes NewObject return null.
RECURSIVE ConstructExpressionsLoop(_, _, _)
ConstructExpressionsLoop(Names, OutExports, acc) ==
    IF Names = <<>> THEN acc
    ELSE LET Name == Head(Names)
         IN  IF ~FindExport(OutExports, Name, ParentName)
             THEN ConstructExpressionsLoop(Tail(Names), OutExports, acc)
             ELSE LET Ex == CreateEmptyExpression(acc.Heap, Name, OutExports[Name].Type, "Null")
                  IN  ConstructExpressionsLoop(Tail(Names), OutExports,
                          [Heap |-> Ex.Heap, Map |-> AddCreated(acc.Map, Name, Ex.Ptr)])

\* The loop of PropagateExpressions run to its end over Names, from the heap
\* and the collection of acc, with no asset to load.
RECURSIVE PropagateExpressionsLoop(_, _, _, _)
PropagateExpressionsLoop(Names, OutExports, Created, acc) ==
    IF Names = <<>> THEN acc
    ELSE LET Name == Head(Names)
             Type == OutExports[Name]
             Json == GetObjectField(Type.Json, "Properties")
         IN  IF ~Contains(Created, Name) \/ (bCheckOuter /\ OuterMismatch(Type.Json))
             THEN PropagateExpressionsLoop(Tail(Names), OutExports, Created, acc)
             ELSE LET Expression == Created[Name]
                      Class == acc.Heap[Expression].Class
                      h == PopulateExpression([Fields |-> acc.Heap[Expression].Fields,
                                               Events |-> <<>>, Loadable |-> {}],
                                              Name, Class, Type.Type, Json, Created,
                                              [Ok |-> FALSE, Imported |-> FALSE])
                      w == ExpressionWrapperBases(
                               [h EXCEPT !.Fields = MaterialGraphNode_ExpressionWrapper(@, Json)],
                               Name, Class, Json)
                  IN  PropagateExpressionsLoop(Tail(Names), OutExports, Created,
                          [Heap |-> [acc.Heap EXCEPT ![Expression] =
                                       [@ EXCEPT !.Fields = w.Fields,
                                                 !.populated = @ + 1,
                                                 !.wrapped = @ + 1]],
                           Collection |-> Attach(acc.Collection, Expression)])

\* The import of a record list into a fresh graph: the index, the create
\* pass and the wire pass, one after the other.
ImportInto(Records) ==
    LET r == FindEditorOnlyDataLoop(
                [EditorOnlyData |-> <<>>, ExpressionNames |-> <<>>, OutExports |-> EmptyObject],
                Records, ParentClass, ParentName)
        c == ConstructExpressionsLoop(r.ExpressionNames, r.OutExports,
                                      [Heap |-> <<>>, Map |-> EmptyObject])
        w == PropagateExpressionsLoop(r.ExpressionNames, r.OutExports, c.Map,
                                      [Heap |-> c.Heap, Collection |-> <<>>])
    IN  [Heap |-> w.Heap, Map |-> c.Map, Collection |-> w.Collection]

\* PropagateExpressions returns and the comments are constructed.
PropagateExpressionsReturn ==
    /\ phase = "Wire"
    /\ idx > Len(ExpressionNames)
    /\ phase' = "Comments"
    /\ idx' = 1
    /\ UNCHANGED <<CallStack, RemoteExports, Outcome, AllJsonObjects, ParentClass, bFilterByOuter, bCheckOuter, bSubgraph,
                   EditorOnlyData, ExpressionNames, Exports, CreatedExpressionMap,
                   Objects, ExpressionCollection, EditorComments, Loadable, log>>

----------------------------------------------------------------------------
(* MaterialGraphNode_ConstructComments *)

\* The object the comments are read from: the ExpressionCollection of the
\* editor-only data, when the file has one.
CommentsJson ==
    IF EditorOnlyData = <<>> THEN EmptyObject
    ELSE GetObjectField(GetObjectField(EditorOnlyData[1], "Properties"), "ExpressionCollection")

StringExpressionComments ==
    IF HasField(CommentsJson, "EditorComments") THEN CommentsJson["EditorComments"] ELSE <<>>

\* StaticAllocateObject: an object of that name in Parent whose class is
\* not the requested class or derived from it cannot be replaced, which is
\* a fatal error.
CannotReplace(Heap, Class, Name) ==
    \E i \in 1..Len(Heap) : Heap[i].Name = Name /\ ~IsA(Heap[i].Class, Class)

\* Faulty variant: the comment is added without a look at the collection.
AddCommentAgain(Collection, Comment) == Append(Collection, Comment)

\* ExpressionCollection.AddComment.
AddComment(Collection, Comment) ==
    IF Comment \in Range(Collection) THEN Collection ELSE Append(Collection, Comment)

\* One iteration of the loop of MaterialGraphNode_ConstructComments.
MaterialGraphNode_ConstructComments ==
    /\ phase = "Comments"
    /\ idx <= Len(StringExpressionComments)
    /\ LET ExpressionComment == StringExpressionComments[idx]
       IN  IF IsNull(ExpressionComment)
           THEN /\ idx' = idx + 1
                /\ UNCHANGED <<phase, Objects, EditorComments, log>>
           ELSE LET ExportName == GetExportNameOfSubobject(ExpressionComment["ObjectName"])
                IN  IF ~Contains(Exports, ExportName)
                    THEN \* Exports.Find(ExportName) is null and is dereferenced
                         /\ phase' = "Crashed"
                         /\ UNCHANGED <<idx, Objects, EditorComments, log>>
                    ELSE IF CannotReplace(Objects, "MaterialExpressionComment", ExportName)
                    THEN /\ phase' = "Crashed"
                         /\ UNCHANGED <<idx, Objects, EditorComments, log>>
                    ELSE LET Comment == GetObjectField(Exports[ExportName].Json, "Properties")
                             r == NewObject(Objects, "MaterialExpressionComment", ExportName)
                             F == TryGetField(TryGetField(r.Heap[r.Ptr].Fields, Comment, "SizeX"),
                                              Comment, "Text")
                         IN  /\ Objects' = [r.Heap EXCEPT ![r.Ptr] =
                                   [@ EXCEPT !.Fields = MaterialGraphNode_ExpressionWrapper(F, Comment),
                                             !.wrapped = @ + 1]]
                             /\ EditorComments' = AddComment(EditorComments, r.Ptr)
                             /\ log' = log \o <<Event("ExpressionWrapper", ExportName, "MaterialExpressionComment", ""),
                                                Event("AddComment", ExportName, "MaterialExpressionComment", "")>>
                             /\ idx' = idx + 1
                             /\ phase' = phase
    /\ UNCHANGED <<CallStack, RemoteExports, Outcome, AllJsonObjects, ParentClass, bFilterByOuter, bCheckOuter, bSubgraph,
                   EditorOnlyData, ExpressionNames, Exports, CreatedExpressionMap,
                   ExpressionCollection, Loadable>>

\* The import is over.
ConstructCommentsReturn ==
    /\ phase = "Comments"
    /\ idx > Len(StringExpressionComments)
    /\ phase' = "Done"
    /\ UNCHANGED <<CallStack, RemoteExports, Outcome, AllJsonObjects, ParentClass, bFilterByOuter, bCheckOuter, bSubgraph,
                   idx, EditorOnlyData, ExpressionNames, Exports, CreatedExpressionMap,
                   Objects, ExpressionCollection, EditorComments, Loadable, log>>

----------------------------------------------------------------------------
(* The files the import is run on *)

Export(Name, Type, Properties) ==
    [Name |-> Name, Type |-> Type, Outer |-> ParentName, Properties |-> Properties]

\* An input that names an expression the way 4.25 and later write it.
InputTo(Name) ==
    [Expression |-> [ObjectName |-> <<"MaterialExpression", ParentName, Name>>],
     OutputIndex |-> 1]

\* An input with literal fields of its own.
ConstantInputTo(Name) ==
    [Expression |-> [ObjectName |-> <<"MaterialExpression", ParentName, Name>>],
     OutputIndex |-> 1, UseConstant |-> TRUE, Constant |-> 4]

\* An input that names an expression the way older versions write it.
LegacyInputTo(Name) == [ExpressionName |-> Name]

SeqsUpTo(S, n) == UNION {[1..k -> S] : k \in 0..n}

NameAt == <<"N1", "N2", "N3", "N4">>

\* Expressions wired to each other, by a name declared before or after, by
\* a name that is not declared, with names that may be shared; the last bag
\* has the literal fields UseConstant and Constant, next to the input and
\* inside it.
AddProperties ==
    {EmptyObject,
     [A |-> InputTo("N1")], [A |-> InputTo("N2")], [A |-> InputTo("Ghost")],
     [A |-> LegacyInputTo("N1")], [A |-> [Expression |-> JsonNull]],
     [A |-> InputTo("N2"), B |-> EmptyObject, ConstA |-> 0, ConstB |-> 5],
     [A |-> ConstantInputTo("N2"), UseConstant |-> TRUE, Constant |-> 4]}

FunctionCallProperties ==
    {[FunctionInputs |-> <<[Input |-> InputTo("N1")]>>],
     [FunctionInputs |-> <<[ExpressionInputId |-> "G", Input |-> InputTo("Ghost")],
                           [Input |-> LegacyInputTo("N2")]>>]}

\* Editor-only data without comments, and with a comment entry that is null.
EditorOnlyDataProperties ==
    {EmptyObject, [ExpressionCollection |-> [EditorComments |-> <<JsonNull>>]]}

GraphExports ==
    {Export(n, "MaterialExpressionAdd", p) : n \in {"N1", "N2"}, p \in AddProperties}
    \cup {Export(n, "MaterialExpressionMaterialFunctionCall", p) :
             n \in {"N1", "N2"}, p \in FunctionCallProperties}
    \cup {Export(n, "MaterialExpressionConstant", [R |-> 3]) : n \in {"N1", "N2"}}
    \cup {Export(n, "MaterialExpressionComposite", EmptyObject) : n \in {"N1", "N2"}}
    \cup {Export("EditorOnlyData", "MaterialEditorOnlyData", p) : p \in EditorOnlyDataProperties}

InitImport ==
    /\ ParentClass = "Material"
    /\ bFilterByOuter = FALSE
    /\ bCheckOuter = FALSE
    /\ bSubgraph = FALSE
    /\ phase = "Index"
    /\ idx = 1
    /\ EditorOnlyData = <<>>
    /\ ExpressionNames = <<>>
    /\ Exports = EmptyObject
    /\ CreatedExpressionMap = EmptyObject
    /\ Objects = <<>>
    /\ ExpressionCollection = <<>>
    /\ EditorComments = <<>>
    /\ log = <<>>
    /\ CallStack = <<>>
    /\ RemoteExports = EmptyObject
    /\ Outcome = NoOutcome

Init ==
    /\ AllJsonObjects \in SeqsUpTo(GraphExports, MaxRecords)
    /\ Loadable = {}
    /\ InitImport

\* Files with kinds the factory ignores, has no handler for, or has no
\* class for.
FactoryExports ==
    {Export(n, "MaterialExpressionAdd", p) :
        n \in {"N1", "N2"}, p \in {EmptyObject, [A |-> InputTo("N1")], [A |-> InputTo("N2")]}}
    \cup {Export(n, t, EmptyObject) :
             n \in {"N1", "N2"},
             t \in {"MaterialExpressionComposite", "MaterialExpressionLength",
                    "UnknownFutureNode", ""}}
    \cup {Export("EditorOnlyData", "MaterialEditorOnlyData",
                 [ExpressionCollection |-> [EditorComments |-> <<JsonNull>>]])}

InitFactory ==
    /\ AllJsonObjects \in SeqsUpTo(FactoryExports, MaxRecords)
    /\ Loadable = {}
    /\ InitImport

\* A reference to an asset outside the file.
PackageIndex(Class, Name) ==
    [ObjectName |-> <<Class, "", Name>>, ObjectPath |-> <<Name, "0">>]

\* Files whose expressions refer to assets, the export at position i being
\* named NameAt[i].
AssetProperties ==
    {<<"MaterialExpressionMaterialFunctionCall", EmptyObject>>,
     <<"MaterialExpressionMaterialFunctionCall",
       [MaterialFunction |-> PackageIndex("MaterialFunction", "/Game/F")]>>,
     <<"MaterialExpressionCollectionParameter",
       [Collection |-> PackageIndex("MaterialParameterCollection", "/Game/C"),
        ParameterName |-> "P"]>>,
     <<"MaterialExpressionCurveAtlasRowParameter",
       [Curve |-> PackageIndex("CurveLinearColor", "/Game/Curve")]>>,
     <<"MaterialExpressionCurveAtlasRowParameter",
       [Curve |-> PackageIndex("CurveLinearColor", "/Game/Curve"),
        Atlas |-> PackageIndex("CurveLinearColorAtlas", "/Game/Atlas"),
        InputTime |-> InputTo("N1")]>>,
     <<"MaterialEditorOnlyData",
       [ExpressionCollection |-> [EditorComments |-> <<JsonNull>>]]>>}

AssetFiles ==
    {[i \in DOMAIN f |-> Export(NameAt[i], f[i][1], f[i][2])] :
        f \in SeqsUpTo(AssetProperties, MaxRecords)}

InitAssets ==
    /\ AllJsonObjects \in AssetFiles
    /\ Loadable \in SUBSET {"/Game/F", "/Game/C", "/Game/Curve"}
    /\ InitImport

\* An export whose "Outer" is given.
ExportIn(Name, Type, Outer, Properties) ==
    [Name |-> Name, Type |-> Type, Outer |-> Outer, Properties |-> Properties]

\* Files imported into a material or a material function, as the whole graph
\* or as a subgraph, with exports of the parent and of a composite inside it.
FlagExports(Class) ==
    {ExportIn(n, "MaterialExpressionAdd", o, p) :
        n \in {"N1", "N2"}, o \in {ParentName, "Composite_0"},
        p \in {EmptyObject, [A |-> InputTo("N1")], [A |-> InputTo("N2"), ConstA |-> 2]}}
    \cup {Export(n, "MaterialExpressionComposite", EmptyObject) : n \in {"N1", "N2"}}
    \cup {Export("EditorOnlyData", EditorOnlyDataType(Class),
                 [ExpressionCollection |-> [EditorComments |-> <<JsonNull>>]])}

InitFlags ==
    /\ ParentClass \in {"Material", "MaterialFunction"}
    /\ bFilterByOuter = FALSE
    /\ bCheckOuter \in BOOLEAN
    /\ bSubgraph \in BOOLEAN
    /\ AllJsonObjects \in SeqsUpTo(FlagExports(ParentClass), MaxRecords)
    /\ Loadable = {}
    /\ phase = "Index"
    /\ idx = 1
    /\ EditorOnlyData = <<>>
    /\ ExpressionNames = <<>>
    /\ Exports = EmptyObject
    /\ CreatedExpressionMap = EmptyObject
    /\ Objects = <<>>
    /\ ExpressionCollection = <<>>
    /\ EditorComments = <<>>
    /\ log = <<>>
    /\ CallStack = <<>>
    /\ RemoteExports = EmptyObject
    /\ Outcome = NoOutcome

\* Files whose expressions are connected to themselves, to each other in a
\* cycle, or to a name that is not declared.
CycleExports ==
    {Export(n, "MaterialExpressionAdd", p) :
        n \in {"N1", "N2"},
        p \in {EmptyObject, [A |-> InputTo("N1")], [A |-> InputTo("N2")],
               [A |-> InputTo("N1"), B |-> InputTo("Ghost")]}}
    \cup {Export(n, "MaterialExpressionComposite", EmptyObject) : n \in {"N1", "N2"}}
    \cup {Export("EditorOnlyData", "MaterialEditorOnlyData",
                 [ExpressionCollection |-> [EditorComments |-> <<JsonNull>>]])}

InitCycles ==
    /\ AllJsonObjects \in SeqsUpTo(CycleExports, MaxRecords)
    /\ Loadable = {}
    /\ InitImport

\* Files with texture samples: the class of the parent handlers, classes
\* derived from it with and without a handler of their own, and a class
\* that is not a texture sample whose bag has the keys of the parent
\* handlers.
TextureExports ==
    {Export(n, "MaterialExpressionTextureSample", p) :
        n \in {"N1", "N2"},
        p \in {EmptyObject,
               [ConstCoordinate |-> 3, Coordinates |-> InputTo("N1")],
               [ConstCoordinate |-> 3, ParameterName |-> "P"]}}
    \cup {Export(n, "MaterialExpressionTextureSampleParameter2D",
                 [ConstCoordinate |-> 3, ParameterName |-> "P"]) : n \in {"N1", "N2"}}
    \cup {Export(n, "MaterialExpressionTextureSampleParameterSubUV",
                 [bBlend |-> TRUE, ParameterName |-> "P", Group |-> "G"]) : n \in {"N1", "N2"}}
    \cup {Export(n, "MaterialExpressionAdd",
                 [ConstCoordinate |-> 3, ParameterName |-> "P"]) : n \in {"N1", "N2"}}
    \cup {Export("EditorOnlyData", "MaterialEditorOnlyData",
                 [ExpressionCollection |-> [EditorComments |-> <<JsonNull>>]])}

InitTextures ==
    /\ AllJsonObjects \in SeqsUpTo(TextureExports, MaxRecords)
    /\ Loadable = {}
    /\ InitImport

\* Files whose property bags have some of the keys a handler reads and lack
\* the others.
ScalarExports ==
    {Export(n, "MaterialExpressionFunctionOutput", p) :
        n \in {"N1", "N2"},
        p \in {EmptyObject,
               [OutputName |-> "Out", ID |-> "G1"],
               [ID |-> "not-a-guid", SortPriority |-> 2, A |-> InputTo("N1")]}}
    \cup {Export(n, "MaterialExpressionStaticComponentMaskParameter", p) :
             n \in {"N1", "N2"},
             p \in {EmptyObject,
                    [DefaultR |-> TRUE, DefaultB |-> FALSE],
                    [DefaultG |-> TRUE, ParameterName |-> "P", Input |-> InputTo("N2")]}}
    \cup {Export(n, "MaterialExpressionAdd", p) :
             n \in {"N1", "N2"}, p \in {EmptyObject, [ConstA |-> 2]}}
    \cup {Export("EditorOnlyData", "MaterialEditorOnlyData",
                 [ExpressionCollection |-> [EditorComments |-> <<JsonNull>>]])}

InitScalars ==
    /\ AllJsonObjects \in SeqsUpTo(ScalarExports, MaxRecords)
    /\ Loadable = {}
    /\ InitImport

\* Files with the kinds that read an array: Inputs arrays shorter than,
\* as long as and longer than the array of the switch, with entries that
\* resolve, that do not and that are null; Layers with a null entry.
SwitchProperties(Num) ==
    {[Default |-> InputTo("N1"), Inputs |-> <<InputTo("Ghost"), InputTo("N1")>>],
     [Inputs |-> <<InputTo("N1"), JsonNull, InputTo("N2")>>],
     [Inputs |-> [i \in 1..(Num + 1) |->
                    IF i = Num + 1 THEN InputTo("N2")
                    ELSE IF i = 1 THEN InputTo("Ghost") ELSE InputTo("N1")]]}

ArrayExports ==
    {Export(n, "MaterialExpressionShadingPathSwitch", p) :
        n \in {"N1", "N2"}, p \in SwitchProperties(ShadingPathNum)}
    \cup {Export(n, "MaterialExpressionQualitySwitch", p) :
             n \in {"N1", "N2"},
             p \in {[Inputs |-> <<InputTo("N2"), InputTo("Ghost"), InputTo("N1")>>],
                    [Inputs |-> <<InputTo("N1"), InputTo("N1"), InputTo("N1"),
                                  InputTo("N1"), InputTo("N2")>>]}}
    \cup {Export(n, "MaterialExpressionFeatureLevelSwitch", p) :
             n \in {"N1", "N2"},
             p \in {[Default |-> InputTo("N2"), Inputs |-> <<InputTo("N1"), InputTo("Ghost")>>],
                    [Inputs |-> <<InputTo("Ghost"), InputTo("Ghost"), InputTo("Ghost"),
                                  InputTo("Ghost"), InputTo("N2"), InputTo("N1")>>]}}
    \cup {Export(n, "MaterialExpressionSetMaterialAttributes", p) :
             n \in {"N1", "N2"},
             p \in {EmptyObject, [Inputs |-> <<>>],
                    [Inputs |-> <<InputTo("Ghost"), InputTo("N1"), InputTo("N2")>>]}}
    \cup {Export(n, "MaterialExpressionLandscapeLayerBlend", p) :
             n \in {"N1", "N2"},
             p \in {[Layers |-> <<[LayerName |-> "c"]>>],
                    [Layers |-> <<[LayerName |-> "a", LayerInput |-> InputTo("N1")],
                                  JsonNull,
                                  [LayerName |-> "b", HeightInput |-> InputTo("N2"),
                                   PreviewWeight |-> 1]>>]}}
    \cup {Export(n, "MaterialExpressionConstant", [R |-> 3]) : n \in {"N1", "N2"}}
    \cup {Export("EditorOnlyData", "MaterialEditorOnlyData",
                 [ExpressionCollection |-> [EditorComments |-> <<JsonNull>>]])}

InitArrays ==
    /\ AllJsonObjects \in SeqsUpTo(ArrayExports, MaxRecords)
    /\ Loadable = {}
    /\ InitImport

\* Files with comments: the comment exports, an expression, and editor-only
\* data whose EditorComments names a comment once, twice, after a null
\* entry, after an export the file does not have, or names the expression.
CommentTo(Name) == [ObjectName |-> <<"MaterialExpressionComment", ParentName, Name>>]

CommentExports ==
    {Export(n, "MaterialExpressionComment", p) :
        n \in {"C1", "C2"}, p \in {EmptyObject, [SizeX |-> 7, Text |-> "note"]}}
    \cup {Export("N1", "MaterialExpressionAdd", [A |-> InputTo("C1")])}

CommentLists ==
    {<<CommentTo("C1")>>, <<CommentTo("C1"), CommentTo("C1")>>,
     <<JsonNull, CommentTo("C2"), CommentTo("C1")>>,
     <<CommentTo("Missing"), CommentTo("C1")>>,
     <<CommentTo("C2"), CommentTo("N1")>>}

InitComments ==
    /\ ParentClass \in {"Material", "MaterialFunction"}
    /\ \E Records \in SeqsUpTo(CommentExports, MaxRecords), List \in CommentLists :
          AllJsonObjects =
             Append(Records,
                    Export("EditorOnlyData", ParentClass \o "EditorOnlyData",
                           [ExpressionCollection |-> [EditorComments |-> List]]))
    /\ bFilterByOuter = FALSE
    /\ bCheckOuter = FALSE
    /\ bSubgraph = FALSE
    /\ Loadable = {}
    /\ phase = "Index"
    /\ idx = 1
    /\ EditorOnlyData = <<>>
    /\ ExpressionNames = <<>>
    /\ Exports = EmptyObject
    /\ CreatedExpressionMap = EmptyObject
    /\ Objects = <<>>
    /\ ExpressionCollection = <<>>
    /\ EditorComments = <<>>
    /\ log = <<>>
    /\ CallStack = <<>>
    /\ RemoteExports = EmptyObject
    /\ Outcome = NoOutcome

\* Files with texture samples that name a texture, imported into a
\* material or a material function, with the texture there to load or not.
RefreshExports(Class) ==
    {Export(n, "MaterialExpressionTextureSample", p) :
        n \in {"N1", "N2"},
        p \in {EmptyObject,
               [Texture |-> PackageIndex("Texture2D", "/Game/T")],
               [Texture |-> PackageIndex("Texture2D", "/Game/U"), ConstCoordinate |-> 3]}}
    \cup {Export(n, "MaterialExpressionTextureSampleParameter2D",
                 [Texture |-> PackageIndex("Texture2D", "/Game/T"), ParameterName |-> "P"]) :
             n \in {"N1", "N2"}}
    \cup {Export(n, "MaterialExpressionAdd",
                 [Texture |-> PackageIndex("Texture2D", "/Game/T")]) : n \in {"N1", "N2"}}
    \cup {Export("EditorOnlyData", Class \o "EditorOnlyData",
                 [ExpressionCollection |-> [EditorComments |-> <<JsonNull>>]])}

InitRefresh ==
    /\ ParentClass \in {"Material", "MaterialFunction"}
    /\ AllJsonObjects \in SeqsUpTo(RefreshExports(ParentClass), MaxRecords)
    /\ Loadable \in SUBSET {"/Game/T", "/Game/U"}
    /\ bFilterByOuter = FALSE
    /\ bCheckOuter = FALSE
    /\ bSubgraph = FALSE
    /\ phase = "Index"
    /\ idx = 1
    /\ EditorOnlyData = <<>>
    /\ ExpressionNames = <<>>
    /\ Exports = EmptyObject
    /\ CreatedExpressionMap = EmptyObject
    /\ Objects = <<>>
    /\ ExpressionCollection = <<>>
    /\ EditorComments = <<>>
    /\ log = <<>>
    /\ CallStack = <<>>
    /\ RemoteExports = EmptyObject
    /\ Outcome = NoOutcome

Next ==
    \/ FindEditorOnlyData
    \/ ConstructExpressions
    \/ ConstructExpressionsReturn
    \/ PropagateExpressions
    \/ PropagateExpressionsReturn
    \/ MaterialGraphNode_ConstructComments
    \/ ConstructCommentsReturn

Spec == Init /\ [][Next]_vars

SpecFactory == InitFactory /\ [][Next]_vars

SpecAssets == InitAssets /\ [][Next]_vars

SpecFlags == InitFlags /\ [][Next]_vars

SpecTextures == InitTextures /\ [][Next]_vars

SpecScalars == InitScalars /\ [][Next]_vars

SpecArrays == InitArrays /\ [][Next]_vars

SpecComments == InitComments /\ [][Next]_vars

SpecRefresh == InitRefresh /\ [][Next]_vars

\* The import is one sequential call: it keeps taking its next step.
SpecLive == InitCycles /\ [][Next]_vars /\ WF_vars(Next)

----------------------------------------------------------------------------
(* Properties *)

Heap == 1..Len(Objects)

Properties(Name) == GetObjectField(Exports[Name].Json, "Properties")

\* The export of the name is one CreateEmptyExpression makes an object for.
WillCreate(Name) ==
    /\ Contains(Exports, Name)
    /\ Exports[Name].Type \in ScriptClasses \ IgnoredExpressions

\* The records at positions i < j are two expressions, the first with an
\* input A that names the second.
NamesLater(i, j) ==
    /\ i < j
    /\ AllJsonObjects[i].Type = "MaterialExpressionAdd"
    /\ AllJsonObjects[i].Name # AllJsonObjects[j].Name
    /\ HasField(AllJsonObjects[i].Properties, "A")
    /\ GetExpressionName(AllJsonObjects[i].Properties["A"]) = AllJsonObjects[j].Name

\* C1: no expression is populated before the create pass is over; when the
\* wire pass runs, every name the create pass makes an object for is in the
\* created map; and the input A of a populated Add that names a created
\* expression is connected to it, wherever the two are declared.
C1_PlaceholdersBeforeWiring ==
    /\ \A e \in Heap : Objects[e].populated > 0 => phase \notin {"Index", "Create"}
    /\ phase \in {"Wire", "Comments", "Done"} =>
         \A k \in 1..Len(ExpressionNames) :
            WillCreate(ExpressionNames[k]) => Contains(CreatedExpressionMap, ExpressionNames[k])
    /\ \A e \in Heap :
         LET P == Properties(Objects[e].Name)
         IN  (/\ Objects[e].populated > 0
              /\ Objects[e].Class = "MaterialExpressionAdd"
              /\ HasField(P, "A")
              /\ WillCreate(GetExpressionName(P["A"])))
             => /\ Contains(CreatedExpressionMap, GetExpressionName(P["A"]))
                /\ Objects[e].Fields["A"].Expression
                     = CreatedExpressionMap[GetExpressionName(P["A"])]

\* C1 witness: an Add declared before the expression its input A names is
\* populated and connected to that expression.
C1_Witness ==
    \E i, j \in 1..Len(AllJsonObjects) :
       /\ NamesLater(i, j)
       /\ Contains(CreatedExpressionMap, AllJsonObjects[i].Name)
       /\ Contains(CreatedExpressionMap, AllJsonObjects[j].Name)
       /\ LET e == CreatedExpressionMap[AllJsonObjects[i].Name]
          IN  /\ Objects[e].populated > 0
              /\ Objects[e].Fields["A"].Expression = CreatedExpressionMap[AllJsonObjects[j].Name]

\* The connections an expression holds.
Connections(e) ==
    LET F == Objects[e].Fields
    IN  {F[k] : k \in DOMAIN F \cap {"A", "B", "Input", "InputTime"}}
        \cup (IF HasField(F, "FunctionInputs")
              THEN {F["FunctionInputs"][k].Input : k \in 1..Len(F["FunctionInputs"])}
              ELSE {})

\* The inputs an expression has been populated from: the pairs of the JSON
\* of an input and the connection made from it (an input key that is not in
\* the property bag has the empty object as its JSON).
WiredInputs(e) ==
    LET F == Objects[e].Fields
        P == Properties(Objects[e].Name)
    IN  IF Objects[e].populated = 0 THEN {}
        ELSE {<<GetObjectField(P, k), F[k]>> : k \in DOMAIN F \cap {"A", "B", "InputTime"}}
             \cup (IF HasField(F, "FunctionInputs")
                   THEN {<<GetObjectField(P["FunctionInputs"][k], "Input"),
                           F["FunctionInputs"][k].Input>> : k \in 1..Len(F["FunctionInputs"])}
                   ELSE {})

\* C2: every value of the created map is an object of the heap with the
\* name it is filed under; a connection whose Expression is set points to a
\* value of the created map; and an input whose name is not in the created
\* map has left its connection's Expression null.
C2_ConnectionsPointIntoCreatedMap ==
    /\ \A n \in DOMAIN CreatedExpressionMap :
          /\ CreatedExpressionMap[n] \in Heap
          /\ Objects[CreatedExpressionMap[n]].Name = n
    /\ \A e \in Heap : \A c \in Connections(e) :
          c.Expression # nullptr =>
             \E n \in DOMAIN CreatedExpressionMap : CreatedExpressionMap[n] = c.Expression
    /\ \A e \in Heap : \A w \in WiredInputs(e) :
          ~Contains(CreatedExpressionMap, GetExpressionName(w[1])) => w[2].Expression = nullptr

\* C2 witness: the import is over with one connection set and another,
\* whose input names an expression that is not in the map, null.
C2_Witness ==
    /\ phase = "Done"
    /\ \E e \in Heap : \E w \in WiredInputs(e) : w[2].Expression # nullptr
    /\ \E e \in Heap : \E w \in WiredInputs(e) :
          /\ GetExpressionName(w[1]) \in {"Ghost", "N1", "N2"}
          /\ ~Contains(CreatedExpressionMap, GetExpressionName(w[1]))
          /\ w[2].Expression = nullptr

\* The expression is one the wire pass does not skip.
PassesOuterCheck(Name) == ~(bCheckOuter /\ OuterMismatch(Exports[Name].Json))

\* The input names an expression that is not in the created map.
Dangling(w) ==
    /\ GetExpressionName(w[1]) # NAME_None
    /\ ~Contains(CreatedExpressionMap, GetExpressionName(w[1]))

\* C3: the import does not crash; an input that names an expression that is
\* not in the created map leaves a default, unconnected input; and once the
\* wire pass is over every expression of the created map has been populated,
\* wrapped and added to the parent's expressions.
C3_DanglingInputTolerated ==
    /\ phase # "Crashed"
    /\ \A e \in Heap : \A w \in WiredInputs(e) : Dangling(w) => w[2] = FExpressionInput
    /\ phase \in {"Comments", "Done"} =>
         \A n \in DOMAIN CreatedExpressionMap :
            PassesOuterCheck(n) =>
               /\ Objects[CreatedExpressionMap[n]].populated >= 1
               /\ Objects[CreatedExpressionMap[n]].wrapped >= 1
               /\ bSubgraph \/ CreatedExpressionMap[n] \in Range(ExpressionCollection)

\* C3 witness: the import is over; the first record's input names an
\* expression that is not in the map and is unconnected, and the record
\* after it is populated and in the parent's expressions.
C3_Witness ==
    /\ phase = "Done"
    /\ Len(AllJsonObjects) >= 2
    /\ Contains(CreatedExpressionMap, AllJsonObjects[1].Name)
    /\ Contains(CreatedExpressionMap, AllJsonObjects[2].Name)
    /\ AllJsonObjects[1].Name # AllJsonObjects[2].Name
    /\ \E w \in WiredInputs(CreatedExpressionMap[AllJsonObjects[1].Name]) :
          Dangling(w) /\ w[2].Expression = nullptr
    /\ Objects[CreatedExpressionMap[AllJsonObjects[2].Name]].populated >= 1
    /\ CreatedExpressionMap[AllJsonObjects[2].Name] \in Range(ExpressionCollection)

\* The name's export has a kind without a handler (and not an ignored one).
Unrecognized(Name) ==
    /\ Contains(Exports, Name)
    /\ Exports[Name].Type \notin Expressions \cup IgnoredExpressions

Logged(ev, Name) == \E k \in 1..Len(log) : log[k].ev = ev /\ log[k].node = Name

\* C4: the import does not crash; no name whose export has an unrecognized
\* kind is in the created map; once the create pass is over a warning is
\* logged for each such name, and once the wire pass is over every created
\* expression has been populated and added to the parent's expressions.
C4_UnrecognizedKindOmitted ==
    /\ phase # "Crashed"
    /\ \A n \in DOMAIN CreatedExpressionMap : ~Unrecognized(n)
    /\ phase \in {"Wire", "Comments", "Done"} =>
         \A k \in 1..Len(ExpressionNames) :
            Unrecognized(ExpressionNames[k]) => Logged("Warning", ExpressionNames[k])
    /\ phase \in {"Comments", "Done"} =>
         \A n \in DOMAIN CreatedExpressionMap :
            /\ Objects[CreatedExpressionMap[n]].populated >= 1
            /\ CreatedExpressionMap[n] \in Range(ExpressionCollection)

\* C5: the kind dispatch and the wrapper step have run at most once over
\* each expression of the created map.
C5_PopulatedAtMostOnce ==
    \A n \in DOMAIN CreatedExpressionMap :
       /\ Objects[CreatedExpressionMap[n]].populated <= 1
       /\ Objects[CreatedExpressionMap[n]].wrapped <= 1

\* The records FindEditorOnlyData goes over.
InputRecords == IF bFilterByOuter THEN FilterExportsByOuter(ParentName) ELSE AllJsonObjects

IsMetadata(Object) == Object.Type = EditorOnlyDataType(ParentClass)

NodeRecords == SelectSeq(InputRecords, LAMBDA Object : ~IsMetadata(Object))

\* C6 as stated: FindEditorOnlyData returns at most one editor-only data,
\* and every other input record is the entry of the export index for its
\* name, and its name is in ExpressionNames.
C6_EveryRecordIsAnIndexEntry ==
    phase # "Index" =>
       /\ Len(EditorOnlyData) <= 1
       /\ \A i \in 1..Len(NodeRecords) :
             /\ Contains(Exports, FName(NodeRecords[i].Name))
             /\ Exports[FName(NodeRecords[i].Name)].Json = NodeRecords[i]
             /\ FName(NodeRecords[i].Name) \in Range(ExpressionNames)

\* C6 amended: FindEditorOnlyData returns at most one editor-only data, the
\* last one of the input; ExpressionNames holds the names of the other
\* records, in order and once per record; these names are the keys of the
\* export index; and a record is the entry for its name unless a later
\* record has the same name.
C6_Partition ==
    phase # "Index" =>
       /\ Len(EditorOnlyData) <= 1
       /\ \A i \in 1..Len(InputRecords) :
             (IsMetadata(InputRecords[i])
                /\ \A j \in 1..Len(InputRecords) : j > i => ~IsMetadata(InputRecords[j]))
             => EditorOnlyData = <<InputRecords[i]>>
       /\ (\A i \in 1..Len(InputRecords) : ~IsMetadata(InputRecords[i])) => EditorOnlyData = <<>>
       /\ Len(ExpressionNames) = Len(NodeRecords)
       /\ \A i \in 1..Len(NodeRecords) : ExpressionNames[i] = FName(NodeRecords[i].Name)
       /\ DOMAIN Exports = Range(ExpressionNames)
       /\ \A i \in 1..Len(NodeRecords) :
             (\A j \in 1..Len(NodeRecords) : j > i => NodeRecords[j].Name # NodeRecords[i].Name)
             => Exports[FName(NodeRecords[i].Name)].Json = NodeRecords[i]

\* C6 witness: the partition of a file with an editor-only data and another
\* record.
C6_Witness ==
    /\ phase = "Create"
    /\ Len(EditorOnlyData) = 1
    /\ Len(ExpressionNames) = Len(AllJsonObjects) - 1
    /\ Len(ExpressionNames) >= 1

\* The position of the last record of the name.
LastRecordNamed(n) ==
    CHOOSE i \in 1..Len(NodeRecords) :
       /\ FName(NodeRecords[i].Name) = n
       /\ \A j \in 1..Len(NodeRecords) : FName(NodeRecords[j].Name) = n => j <= i

\* C7: the entry of the export index for a name holds the kind and the JSON
\* of the last record of that name, and the import does not crash.
C7_LastRecordWins ==
    /\ phase # "Crashed"
    /\ phase # "Index" =>
         \A n \in DOMAIN Exports :
            /\ Exports[n].Json = NodeRecords[LastRecordNamed(n)]
            /\ Exports[n].Type = NodeRecords[LastRecordNamed(n)].Type

\* C7 witness: the import is over for a file whose two records have the
\* same name and differ; the index holds the second.
C7_Witness ==
    /\ phase = "Done"
    /\ Len(NodeRecords) = 2
    /\ NodeRecords[1].Name = NodeRecords[2].Name
    /\ NodeRecords[1] # NodeRecords[2]
    /\ Exports[FName(NodeRecords[2].Name)].Json = NodeRecords[2]

Ignored(Name) == Contains(Exports, Name) /\ Exports[Name].Type \in IgnoredExpressions

\* C8: a name whose export has an ignored kind is never in the created map
\* and has no warning and no dialog in the log; the create pass does not
\* stop at such a name, and once it is over every name whose kind has a
\* class and is not ignored is in the created map.
C8_IgnoredKindSkippedSilently ==
    /\ \A n \in DOMAIN Exports :
          Ignored(n) => /\ ~Contains(CreatedExpressionMap, n)
                        /\ ~Logged("Warning", n)
                        /\ ~Logged("Dialog", n)
    /\ (phase = "Crashed" /\ idx <= Len(ExpressionNames)) => ~Ignored(ExpressionNames[idx])
    /\ phase \in {"Wire", "Comments", "Done"} =>
          \A k \in 1..Len(ExpressionNames) :
             WillCreate(ExpressionNames[k]) => Contains(CreatedExpressionMap, ExpressionNames[k])

\* C8 witness: the import is over; the first record has an ignored kind and
\* is not in the map, nothing is logged for it, and the record after it has
\* been created and populated.
C8_Witness ==
    /\ phase = "Done"
    /\ Len(AllJsonObjects) = 2
    /\ AllJsonObjects[1].Type \in IgnoredExpressions
    /\ AllJsonObjects[1].Name # AllJsonObjects[2].Name
    /\ ~Contains(CreatedExpressionMap, AllJsonObjects[1].Name)
    /\ ~Logged("Warning", AllJsonObjects[1].Name)
    /\ Contains(CreatedExpressionMap, AllJsonObjects[2].Name)
    /\ Objects[CreatedExpressionMap[AllJsonObjects[2].Name]].populated = 1

SameField(a, b) == a.node = b.node /\ a.key = b.key

\* The events k..j of the log belong to one run of the kind dispatch.
SameRun(k, j) == \A m \in (k + 1)..j : log[m].ev # "Populate"

\* No run of the kind dispatch over the event's expression follows it.
LastRun(k) ==
    \A j \in (k + 1)..Len(log) : ~(log[j].ev = "Populate" /\ log[j].node = log[k].node)

AssetFields == {"MaterialFunction", "Collection", "Curve", "Atlas"}

\* The field is named in the property bag of the created expression, its
\* kind handler has run, and the field is null.
EndsUnset(Name, Field) ==
    /\ Name \in DOMAIN CreatedExpressionMap
    /\ Logged("Populate", Name)
    /\ HasField(Properties(Name), Field)
    /\ Field \in DOMAIN Objects[CreatedExpressionMap[Name]].Fields
    /\ Objects[CreatedExpressionMap[Name]].Fields[Field] = NoAsset

Notified(Name, Field) ==
    \E k \in 1..Len(log) :
        log[k].ev = "Notification" /\ log[k].node = Name /\ log[k].key = Field

\* C10: when the import is over, every asset-pointer field named in a
\* property bag that is still null has had its notification.
C10_UnsetFieldWasNotified ==
    phase = "Done" =>
        \A Name \in DOMAIN Exports : \A Field \in AssetFields :
            EndsUnset(Name, Field) => Notified(Name, Field)

\* The names of the first n entries of ExpressionNames whose iteration of
\* PropagateExpressions reaches the end of the loop body.
WiredNames(n) ==
    SelectSeq(SubSeq(ExpressionNames, 1, n),
              LAMBDA Name : Contains(CreatedExpressionMap, Name) /\ PassesOuterCheck(Name))

RECURSIVE Unique(_)
Unique(s) ==
    IF s = <<>> THEN <<>>
    ELSE LET r == Unique(SubSeq(s, 1, Len(s) - 1))
         IN  IF s[Len(s)] \in Range(r) THEN r ELSE Append(r, s[Len(s)])

\* The position PropagateExpressions has reached in ExpressionNames.
Propagated ==
    IF phase \in {"Index", "Create"} THEN 0
    ELSE IF phase = "Wire" THEN idx - 1
    ELSE Len(ExpressionNames)

\* C11: when the import is not a subgraph import, the expressions of the
\* parent's collection are those of the names PropagateExpressions has
\* wired, in the order of ExpressionNames, the skipped names being absent (a
\* material function lists an expression once, at its first occurrence).
C11_CollectionInDeclarationOrder ==
    ~bSubgraph =>
        LET Wired == [i \in 1..Len(WiredNames(Propagated)) |->
                         CreatedExpressionMap[WiredNames(Propagated)[i]]]
        IN  ExpressionCollection =
               (IF ParentClass = "Material" THEN Wired ELSE Unique(Wired))

\* C11 witness: the import is over, two different expressions are in the
\* collection, the one of the first name first.
C11_Witness ==
    /\ phase = "Done"
    /\ ~bSubgraph
    /\ Len(ExpressionNames) = 2
    /\ ExpressionNames[1] # ExpressionNames[2]
    /\ Len(ExpressionCollection) = 2
    /\ ExpressionCollection[1] = CreatedExpressionMap[ExpressionNames[1]]
    /\ ExpressionCollection[2] = CreatedExpressionMap[ExpressionNames[2]]

\* The connections that resolved: the triples of the name of a populated
\* expression, the key of one of its inputs and the name of the expression
\* the input is connected to.
ResolvedTriples ==
    UNION {LET F == Objects[e].Fields
           IN  {<<Objects[e].Name, <<k, 0>>, Objects[F[k].Expression].Name>> :
                   k \in {k \in DOMAIN F \cap {"A", "B", "Input", "InputTime"} :
                             F[k].Expression # nullptr}}
               \cup (IF HasField(F, "FunctionInputs")
                     THEN {<<Objects[e].Name, <<"FunctionInputs", k>>,
                             Objects[F["FunctionInputs"][k].Input.Expression].Name>> :
                             k \in {k \in 1..Len(F["FunctionInputs"]) :
                                       F["FunctionInputs"][k].Input.Expression # nullptr}}
                     ELSE {})
           : e \in {e \in Heap : Objects[e].populated > 0}}

UniqueNames ==
    \A i, j \in 1..Len(AllJsonObjects) :
        i # j => AllJsonObjects[i].Name # AllJsonObjects[j].Name

\* The names a set of records gives an expression to.
CreatedNamesOf(Records) ==
    {FName(r.Name) : r \in {r \in Records : r.Type \in ScriptClasses \ IgnoredExpressions}}

\* The triples a set of records asks for, among the names the set creates:
\* a function of the set, the same for every order of the records.
TriplesOf(Records) ==
    UNION {LET P == r.Properties
           IN  (IF r.Type = "MaterialExpressionAdd"
                THEN {<<FName(r.Name), <<k, 0>>, GetExpressionName(P[k])>> :
                         k \in {k \in DOMAIN P \cap {"A", "B"} :
                                   GetExpressionName(P[k]) \in CreatedNamesOf(Records)}}
                ELSE {})
               \cup (IF r.Type = "MaterialExpressionMaterialFunctionCall"
                        /\ HasField(P, "FunctionInputs")
                     THEN {<<FName(r.Name), <<"FunctionInputs", k>>,
                             GetExpressionName(P["FunctionInputs"][k].Input)>> :
                             k \in {k \in 1..Len(P["FunctionInputs"]) :
                                       GetExpressionName(P["FunctionInputs"][k].Input)
                                          \in CreatedNamesOf(Records)}}
                     ELSE {})
           : r \in {r \in Records : r.Type \in ScriptClasses \ IgnoredExpressions}}

\* C12: when the names of the records are unique, the connections that have
\* resolved at the end of the import are a function of the set of records:
\* the same triples for every order the records are declared in.
C12_ResolutionIgnoresRecordOrder ==
    (phase = "Done" /\ UniqueNames) => ResolvedTriples = TriplesOf(Range(AllJsonObjects))

\* C12 witness: the import is over for two records with different names,
\* the first connected to the second, declared after it.
C12_Witness ==
    /\ phase = "Done"
    /\ UniqueNames
    /\ Len(AllJsonObjects) = 2
    /\ \E k \in {<<"A", 0>>, <<"FunctionInputs", 1>>, <<"FunctionInputs", 2>>} :
          <<AllJsonObjects[1].Name, k, AllJsonObjects[2].Name>> \in ResolvedTriples

\* C13: in a subgraph import no step changes the parent's collection of
\* expressions and no expression is added to it, while once the wire pass is
\* over every created expression that passes the Outer check has been
\* populated and wrapped.
C13_SubgraphLeavesCollectionAlone ==
    /\ [][bSubgraph => ExpressionCollection' = ExpressionCollection]_vars
    /\ [](bSubgraph =>
            /\ \A k \in 1..Len(log) : log[k].ev # "AddExpression"
            /\ phase \in {"Comments", "Done"} =>
                  \A n \in DOMAIN CreatedExpressionMap :
                     PassesOuterCheck(n) =>
                        /\ Objects[CreatedExpressionMap[n]].populated >= 1
                        /\ Objects[CreatedExpressionMap[n]].wrapped >= 1)

\* C13 witness: a subgraph import is over, an expression of it is populated,
\* wrapped and connected, and the parent's collection is empty.
C13_Witness ==
    /\ phase = "Done"
    /\ bSubgraph
    /\ ExpressionCollection = <<>>
    /\ \E e \in Heap :
          /\ Objects[e].populated >= 1
          /\ Objects[e].wrapped >= 1
          /\ Objects[e].Fields["A"].Expression # nullptr

\* The constant a connection carries: an FExpressionInput has none.
ConstantFallback(Input) ==
    IF HasField(Input, "UseConstant") /\ HasField(Input, "Constant")
    THEN [UseConstant |-> Input.UseConstant, Constant |-> Input.Constant]
    ELSE [UseConstant |-> FALSE, Constant |-> 0]

\* The literal fields of a property bag.
Literals(Bag) == [UseConstant |-> Bag.UseConstant, Constant |-> Bag.Constant]

\* The populated expressions whose property bag has an input A and the
\* literal fields.
WithLiterals ==
    {e \in Heap : /\ Objects[e].populated > 0
                  /\ HasField(Objects[e].Fields, "A")
                  /\ {"A", "UseConstant", "Constant"} \subseteq DOMAIN Properties(Objects[e].Name)}

\* C14: the connection made for an input whose property bag has the literal
\* fields carries them as its constant, whether the input resolved or not,
\* and so does every outcome of PopulateExpressionInput for a Color, Scalar
\* or Vector input.
C14_ConstantFallbackFromLiterals ==
    \A e \in WithLiterals :
        LET P == Properties(Objects[e].Name)
        IN  /\ ConstantFallback(Objects[e].Fields["A"]) = Literals(P)
            /\ \A Type \in InputVariants :
                  \A r \in PopulateExpressionInputOfType(P["A"], Objects[e].Fields["A"].Expression, Type) :
                     ConstantFallback(r) = Literals(P)

NameOf(H, Expression) == IF Expression = nullptr THEN NAME_None ELSE H[Expression].Name

\* The fields of an expression with every connection naming its target.
FieldsByName(H, Fields) ==
    [k \in DOMAIN Fields |->
        IF k \in {"A", "B", "Input", "InputTime"}
        THEN [Fields[k] EXCEPT !.Expression = NameOf(H, @)]
        ELSE IF k = "FunctionInputs"
        THEN [i \in 1..Len(Fields[k]) |->
                 [Fields[k][i] EXCEPT !.Input.Expression = NameOf(H, @)]]
        ELSE Fields[k]]

\* A graph by name: the class and the fields of the expression of each name
\* of the map, and the names of the collection in order.
GraphByName(H, Map, Collection) ==
    [Nodes |-> [n \in DOMAIN Map |->
                   [Class |-> H[Map[n]].Class, Fields |-> FieldsByName(H, H[Map[n]].Fields)]],
     Collection |-> [i \in 1..Len(Collection) |-> NameOf(H, Collection[i])]]

Count(s, Test(_)) == Len(SelectSeq(s, Test))

\* C16: the import reaches its end; when it has, every name of
\* ExpressionNames has been created once and wired once for each of its
\* occurrences (the ignored kinds not at all); and a step of the wire pass
\* changes the expression of its own name and no other.
C16_ImportTerminates ==
    /\ <>(phase = "Done")
    /\ [](phase = "Done" =>
            \A n \in Range(ExpressionNames) :
               LET Occurrences == Count(ExpressionNames, LAMBDA m : m = n)
                   Wired == Count(log, LAMBDA ev : ev.ev = "Populate" /\ ev.node = n)
                   Wrapped == Count(log, LAMBDA ev : ev.ev = "ExpressionWrapper" /\ ev.node = n)
               IN  IF Contains(CreatedExpressionMap, n)
                   THEN /\ Wired = Occurrences
                        /\ Wrapped = Occurrences
                        /\ Objects[CreatedExpressionMap[n]].populated = Occurrences
                   ELSE Wired = 0 /\ Wrapped = 0)
    /\ [][phase = "Wire" /\ idx <= Len(ExpressionNames) =>
             /\ Len(Objects') = Len(Objects)
             /\ \A e \in Heap :
                   (~Contains(CreatedExpressionMap, ExpressionNames[idx])
                       \/ e # CreatedExpressionMap[ExpressionNames[idx]])
                   => Objects'[e] = Objects[e]]_vars

\* C16 witness: the import is over for two expressions connected to each
\* other in a cycle, or for one connected to itself.
C16_Witness ==
    /\ phase = "Done"
    /\ \/ {<<"N1", <<"A", 0>>, "N2">>, <<"N2", <<"A", 0>>, "N1">>} \subseteq ResolvedTriples
       \/ <<"N1", <<"A", 0>>, "N1">> \in ResolvedTriples

\* The log has the event for the name before position k.
LoggedBefore(k, ev, Name) ==
    \E j \in 1..(k - 1) : log[j].ev = ev /\ log[j].node = Name

\* C17: no expression is populated before the create pass is over, and when
\* an expression is added to the parent's collection the kind dispatch of
\* every expression of the created map has already run.
C17_StrictPhaseOrder ==
    /\ \A e \in Heap : Objects[e].populated > 0 => phase \notin {"Index", "Create"}
    /\ \A k \in 1..Len(log) :
          log[k].ev = "AddExpression" =>
             \A n \in DOMAIN CreatedExpressionMap :
                PassesOuterCheck(n) => LoggedBefore(k, "Populate", n)

\* C18: in the iteration of an expression the kind dispatch comes first,
\* the wrapper after it, and the expression is added to the parent's
\* collection after the wrapper of the same iteration.
C18_WrapperBeforeAttach ==
    /\ \A k \in 1..Len(log) :
          log[k].ev = "ExpressionWrapper" /\ log[k].key # "MaterialExpressionComment" =>
             \E j \in 1..(k - 1) :
                log[j].ev = "Populate" /\ log[j].node = log[k].node /\ SameRun(j, k)
    /\ \A k \in 1..Len(log) :
          log[k].ev = "AddExpression" =>
             \E j \in 1..(k - 1) :
                log[j].ev = "ExpressionWrapper" /\ log[j].node = log[k].node /\ SameRun(j, k)

BaseKinds == {"MaterialExpressionTextureSample", "MaterialExpressionTextureSampleParameter"}

\* The position of the Populate event that starts the iteration the event
\* at k belongs to.
RunStart(k) ==
    CHOOSE j \in 1..k : log[j].ev = "Populate" /\ \A m \in (j + 1)..k : log[m].ev # "Populate"

\* The parent handler of Base has run in the iteration ending at k.
BaseHandlerRan(k, Base) ==
    \E m \in RunStart(k)..k : log[m].ev = "BaseHandler" /\ log[m].key = Base

\* C19: in every iteration of the wire pass the handler of each parent
\* class has run exactly when the class of the expression is derived from
\* it, whatever the export's Type string is; it has run after the handler of
\* the kind; and the fields of a parent class are written for the
\* expressions of its classes and for no other.
C19_BaseHandlersByRealizedType ==
    /\ \A k \in 1..Len(log) :
          (log[k].ev = "ExpressionWrapper" /\ log[k].key # "MaterialExpressionComment") =>
             LET Class == Objects[CreatedExpressionMap[log[k].node]].Class
             IN  \A Base \in BaseKinds : BaseHandlerRan(k, Base) <=> IsA(Class, Base)
    /\ \A k \in 1..Len(log) :
          log[k].ev = "BaseHandler" =>
             \A q \in RunStart(k)..Len(log) :
                (log[q].ev = "KindHandler" /\ SameRun(RunStart(k), q)) => q < k
    /\ \A e \in Heap :
          Objects[e].populated > 0 =>
             LET P == Properties(Objects[e].Name)
                 F == Objects[e].Fields
             IN  /\ IF IsA(Objects[e].Class, "MaterialExpressionTextureSample")
                    THEN HasField(P, "ConstCoordinate") => F["ConstCoordinate"] = P["ConstCoordinate"]
                    ELSE ~HasField(F, "ConstCoordinate")
                 /\ IF IsA(Objects[e].Class, "MaterialExpressionTextureSampleParameter")
                    THEN HasField(P, "ParameterName") => F["ParameterName"] = P["ParameterName"]
                    ELSE ~HasField(F, "ParameterName")

\* C19 witness: the import is over for an expression whose kind has no
\* handler of its own and one whose kind has; both parent handlers have run
\* for both, after the handler of the kind, and have written their fields.
C19_Witness ==
    /\ phase = "Done"
    /\ \E a, b \in Heap :
          /\ Objects[a].Class = "MaterialExpressionTextureSampleParameter2D"
          /\ Objects[b].Class = "MaterialExpressionTextureSampleParameterSubUV"
          /\ Objects[a].Fields["ConstCoordinate"] = 3
          /\ Objects[a].Fields["ParameterName"] = "P"
          /\ Objects[b].Fields["Group"] = "G"
          /\ Objects[b].Fields["bBlend"]
          /\ \E i, j, k \in 1..Len(log) :
                /\ i < j /\ j < k
                /\ log[i].ev = "KindHandler" /\ log[i].node = Objects[b].Name
                /\ log[j].ev = "BaseHandler" /\ log[j].node = Objects[b].Name
                /\ log[j].key = "MaterialExpressionTextureSample"
                /\ log[k].ev = "BaseHandler" /\ log[k].node = Objects[b].Name
                /\ log[k].key = "MaterialExpressionTextureSampleParameter"

\* The number, string, flag and GUID fields the handlers read from the
\* property bag, and the key each is read from.
ScalarFields ==
    {"OutputName", "Description", "SortPriority", "bLastPreviewed", "Id",
     "DefaultR", "DefaultG", "DefaultB", "DefaultA", "ConstA", "ConstB",
     "ParameterName", "Group", "MaterialExpressionEditorX", "Desc"}

KeyOf(Field) == IF Field = "Id" THEN "ID" ELSE Field

SkippedByOuter ==
    {n \in DOMAIN CreatedExpressionMap :
        /\ bCheckOuter
        /\ "Outer" \in DOMAIN Exports[n].Json
        /\ Exports[n].Json["Outer"] # ParentName}

\* C21: with bCheckOuter, a created expression whose export declares another
\* Outer is as NewObject left it, no kind dispatch, wrapper or addition is
\* logged for it and it is not in the parent's collection; once the wire
\* pass is over every other created expression has been populated, wrapped
\* and, unless the import is a subgraph, added to the collection.
C21_OuterFilterSkipsNode ==
    /\ \A n \in SkippedByOuter :
          LET e == CreatedExpressionMap[n]
          IN  /\ Objects[e] = NewExpression(Objects[e].Class, n)
              /\ e \notin Range(ExpressionCollection)
              /\ ~Logged("Populate", n)
              /\ ~Logged("ExpressionWrapper", n)
              /\ ~Logged("AddExpression", n)
    /\ phase \in {"Comments", "Done"} =>
          \A n \in DOMAIN CreatedExpressionMap \ SkippedByOuter :
             LET e == CreatedExpressionMap[n]
             IN  /\ Objects[e].populated >= 1
                 /\ Objects[e].wrapped >= 1
                 /\ Objects[e].Fields["Owner"] = ParentName
                 /\ bSubgraph \/ e \in Range(ExpressionCollection)

\* C21 witness: the import is over with one expression skipped for its
\* Outer, whose bag has an input and a number, and one processed.
C21_Witness ==
    /\ phase = "Done"
    /\ \E n \in SkippedByOuter :
          /\ HasField(Properties(n), "ConstA")
          /\ HasField(Properties(n), "A")
    /\ \E n \in DOMAIN CreatedExpressionMap \ SkippedByOuter :
          Objects[CreatedExpressionMap[n]].populated >= 1

----------------------------------------------------------------------------
(* C22: arrays of the property bag *)

PositionalKinds == SwitchKinds \cup {"MaterialExpressionSetMaterialAttributes"}

\* The created expressions the dispatch has run over.
PopulatedNames ==
    {n \in DOMAIN CreatedExpressionMap : Objects[CreatedExpressionMap[n]].populated >= 1}

\* The expression an entry of an array names, nullptr when the entry is
\* null or names no created expression.
EntryTarget(Value) ==
    IF "IsNull" \in DOMAIN Value THEN nullptr
    ELSE IF "Expression" \in DOMAIN Value
            /\ "ObjectName" \in DOMAIN Value["Expression"]
            /\ Value["Expression"]["ObjectName"][3] \in DOMAIN CreatedExpressionMap
    THEN CreatedExpressionMap[Value["Expression"]["ObjectName"][3]]
    ELSE nullptr

\* The Connection an entry stands for: to its target with the entry's
\* output index, or unconnected.
EntryConnection(Value) ==
    IF EntryTarget(Value) = nullptr THEN FExpressionInput
    ELSE [Expression |-> EntryTarget(Value),
          OutputIndex |-> IF "OutputIndex" \in DOMAIN Value THEN Value["OutputIndex"] ELSE 0,
          Mask |-> IF "Mask" \in DOMAIN Value THEN Value["Mask"] ELSE 0]

\* The sub-structure an entry of Layers stands for.
EntryLayer(L) ==
    [LayerName |-> IF "LayerName" \in DOMAIN L THEN L["LayerName"] ELSE NAME_None,
     LayerInput |-> IF "LayerInput" \in DOMAIN L
                    THEN EntryConnection(L["LayerInput"]) ELSE FExpressionInput,
     HeightInput |-> IF "HeightInput" \in DOMAIN L
                     THEN EntryConnection(L["HeightInput"]) ELSE FExpressionInput,
     PreviewWeight |-> IF "PreviewWeight" \in DOMAIN L THEN L["PreviewWeight"] ELSE 0]

NotNullEntry(Value) == "IsNull" \notin DOMAIN Value

RECURSIVE Repeat(_, _)
Repeat(s, k) == IF k = 0 THEN <<>> ELSE s \o Repeat(s, k - 1)

\* The positional destinations: index i of Inputs holds the Connection of
\* entry i, unconnected when the entry does not resolve, and the indices
\* after the last entry are unconnected.
InputsByPosition(n) ==
    LET F == Objects[CreatedExpressionMap[n]].Fields
        P == Properties(n)
        T == Exports[n].Type
    IN  (T \in PositionalKinds /\ "Inputs" \in DOMAIN P) =>
           /\ Len(F["Inputs"]) = IF T \in SwitchKinds THEN InputsNum(T) ELSE Len(P["Inputs"])
           /\ \A i \in 1..Len(F["Inputs"]) :
                 F["Inputs"][i] = IF i <= Len(P["Inputs"])
                                  THEN EntryConnection(P["Inputs"][i])
                                  ELSE FExpressionInput

----------------------------------------------------------------------------
(* C27: the fixed size of a switch's Inputs *)

\* C27: for the quality, feature-level and shading-path switches no write
\* of the loop over the bag's Inputs is made at an index at or past the
\* fixed size of the destination, however long the bag's array is.
C27_WriteIndexWithinInputs ==
    \A e \in Heap :
       Objects[e].Class \in SwitchKinds =>
          Objects[e].Fields["PastTheEnd"] = <<>>

----------------------------------------------------------------------------
(* C23: the comments *)

\* The names the entries of EditorComments before entry k name, null
\* entries left out.
CommentNamesBefore(k) ==
    {StringExpressionComments[i]["ObjectName"][3] :
        i \in {i \in 1..(k - 1) : i <= Len(StringExpressionComments)
                                   /\ "IsNull" \notin DOMAIN StringExpressionComments[i]}}

\* The entries of EditorComments the loop has gone over.
CommentsDone ==
    IF phase = "Done" THEN CommentNamesBefore(Len(StringExpressionComments) + 1)
    ELSE IF phase \in {"Comments", "Crashed"} /\ EditorOnlyData # <<>>
    THEN CommentNamesBefore(idx)
    ELSE {}

----------------------------------------------------------------------------
(* C29: a comment without an export *)

\* The entry of EditorComments the loop is at names an export the file
\* does not have.
AtMissingExport ==
    /\ EditorOnlyData # <<>>
    /\ idx <= Len(StringExpressionComments)
    /\ "IsNull" \notin DOMAIN StringExpressionComments[idx]
    /\ StringExpressionComments[idx]["ObjectName"][3] \notin DOMAIN Exports

\* C29: the loop over EditorComments does not abort at an entry that names
\* an export the file does not have; when the import is over every entry
\* that names an export has its comment in the Comment collection.
C29_MissingExportIsSkipped ==
    /\ ~(phase = "Crashed" /\ AtMissingExport)
    /\ phase = "Done" =>
          \A i \in 1..Len(StringExpressionComments) :
             LET Entry == StringExpressionComments[i]
             IN  ("IsNull" \notin DOMAIN Entry /\ Entry["ObjectName"][3] \in DOMAIN Exports) =>
                    \E c \in Range(EditorComments) : Objects[c].Name = Entry["ObjectName"][3]

----------------------------------------------------------------------------
(* C24: the recompile of the material *)

\* The calls that make the owning material recompile or refresh.
RefreshHooks == {"RecompileMaterial", "RecacheUniformExpressions"}

\* C24: the material is recompiled or refreshed for a texture expression
\* only when the texture its bag names was loaded: no hook is called for an
\* expression whose Texture stays null.
C24_RefreshOnlyAfterLoad ==
    \A k \in 1..Len(log) :
       (log[k].ev \in RefreshHooks /\ "Texture" \in DOMAIN Properties(log[k].node)) =>
          Objects[CreatedExpressionMap[log[k].node]].Fields["Texture"] # NoAsset

----------------------------------------------------------------------------
(* C25: an expression is in the collection once *)

\* C25: when the import is not a subgraph import no expression is twice in
\* the parent's collection, whatever the records are, two records of one
\* Name included.
C25_NoExpressionTwice ==
    ~bSubgraph =>
        \A i, j \in 1..Len(ExpressionCollection) :
           i # j => ExpressionCollection[i] # ExpressionCollection[j]

----------------------------------------------------------------------------
(* C26: the targets of the expressions of the collection *)

\* The expressions the inputs of e are connected to.
Targets(e) ==
    {Objects[e].Fields[k].Expression :
        k \in {k \in DOMAIN Objects[e].Fields \cap {"A", "B"} :
                  Objects[e].Fields[k].Expression # nullptr}}

\* C26: after an import with the check of the Outer on that is not a
\* subgraph import, every expression an expression of the parent's
\* collection is connected to is in the collection and has been populated.
C26_TargetsAreAttached ==
    (phase = "Done" /\ bCheckOuter /\ ~bSubgraph) =>
        \A e \in Range(ExpressionCollection) : \A t \in Targets(e) :
           /\ t \in Range(ExpressionCollection)
           /\ Objects[t].populated >= 1

----------------------------------------------------------------------------
(* FAssetUtilities::ConstructAsset and the imports it starts *)

\* The nested imports the call stack of the editor has room for.
MaxDepth == 3

\* The types of the first test of ConstructAsset.
SupportedTypes ==
    {"Texture2D", "TextureCube", "TextureRenderTarget2D", "MaterialParameterCollection",
     "CurveFloat", "CurveVector", "CurveLinearColorAtlas", "CurveLinearColor",
     "PhysicalMaterial", "SubsurfaceProfile", "LandscapeGrassType",
     "MaterialInstanceConstant", "ReverbEffect", "SoundAttenuation", "SoundConcurrency",
     "DataTable", "MaterialFunction"}

\* The types that are handled by Construct_TypeTexture.
TextureTypes == {"Texture2D", "TextureRenderTarget2D", "TextureCube"}

\* The assets of the remote side and the type each is asked for with.
TypeOf(Path) ==
    IF Path = "/Game/T" THEN "Texture2D"
    ELSE IF Path = "/Game/S" THEN "StaticMesh"
    ELSE "MaterialFunction"

\* What the two requests of Construct_TypeTexture are answered with: no
\* valid answer to the first or to the second request, an answer that is
\* no JSON array, an empty array, an export of a texture the importer makes
\* a texture of or not, an export of another type.
TextureAnswers ==
    {"NoContent", "NoJson", "NotJson", "EmptyArray", "Texture", "TextureNotImported",
     "OtherType"}

\* Construct_TypeTexture: the outcomes [Return, OutTexture, Crashed] for an
\* answer; OutTexture is "Unassigned" when the function does not write it.
\* JsonArray[0] is read before the test of IsEmpty: on an empty array the
\* read is out of range, the editor stops at the range check or the test
\* of IsEmpty that follows returns false.
Construct_TypeTexture(Path, Answer, bMarkedDirty) ==
    IF Answer \in {"NoContent", "NoJson"}
    THEN {[Return |-> FALSE, OutTexture |-> "Unassigned", Crashed |-> FALSE]}
    ELSE IF Answer = "NotJson"
    THEN {[Return |-> TRUE, OutTexture |-> "Unassigned", Crashed |-> FALSE]}
    ELSE IF Answer = "EmptyArray"
    THEN {[Return |-> FALSE, OutTexture |-> "Unassigned", Crashed |-> TRUE],
          [Return |-> FALSE, OutTexture |-> "Unassigned", Crashed |-> FALSE]}
    ELSE IF Answer \in {"TextureNotImported", "OtherType"}
    THEN {[Return |-> FALSE, OutTexture |-> "Unassigned", Crashed |-> FALSE]}
    ELSE IF ~bMarkedDirty
    THEN {[Return |-> FALSE, OutTexture |-> "Unassigned", Crashed |-> FALSE]}
    ELSE {[Return |-> TRUE, OutTexture |-> Path, Crashed |-> FALSE]}

\* "UTexture* Texture;" of ConstructAsset after the call: what the callee
\* wrote, or the indeterminate value of the uninitialized pointer.
TextureAfter(r) ==
    IF r.OutTexture = "Unassigned" THEN "Indeterminate" ELSE r.OutTexture

\* Cast<T>(Texture): the object, and for an indeterminate pointer a crash,
\* null or the pointer as it is.  The outcomes are [OutObject, Crashed].
CastTexture(Texture) ==
    IF Texture = "Indeterminate"
    THEN {[OutObject |-> "Indeterminate", Crashed |-> FALSE],
          [OutObject |-> "nullptr", Crashed |-> FALSE],
          [OutObject |-> "nullptr", Crashed |-> TRUE]}
    ELSE {[OutObject |-> Texture, Crashed |-> FALSE]}

\* ConstructAsset for a texture type: the outcomes of the call.
ConstructAssetTexture(Path, Type, Answer, bMarkedDirty) ==
    UNION {IF r.Crashed
           THEN {[Path |-> Path, Type |-> Type, Return |-> FALSE, bSuccess |-> FALSE,
                  OutObject |-> "nullptr", Crashed |-> TRUE,
                  StackExhausted |-> FALSE]}
           ELSE IF r.Return
           THEN {[Path |-> Path, Type |-> Type, Return |-> TRUE, bSuccess |-> TRUE,
                  OutObject |-> c.OutObject, Crashed |-> c.Crashed,
                  StackExhausted |-> FALSE] :
                    c \in CastTexture(TextureAfter(r))}
           ELSE {[Path |-> Path, Type |-> Type, Return |-> TRUE, bSuccess |-> FALSE,
                  OutObject |-> "nullptr", Crashed |-> FALSE,
                  StackExhausted |-> FALSE]} :
             r \in Construct_TypeTexture(Path, Answer, bMarkedDirty)}

\* An import in progress: the asset it makes and the references of its
\* expressions that are still to be loaded.
Frame(Path, Refs) == [Path |-> Path, Refs |-> Refs]

\* The references of the expressions of a unit.
UnitReferences ==
    {<<>>, <<"/Game/A">>, <<"/Game/B">>, <<"/Game/B", "/Game/T">>, <<"/Game/S", "/Game/B">>}

\* What API_RequestExports answers for a path: no export (the request or
\* the parse failed, or the array is empty), or the exports of a unit with
\* these references.
Responses ==
    {[IsEmpty |-> TRUE, Refs |-> <<>>]}
    \cup {[IsEmpty |-> FALSE, Refs |-> Refs] : Refs \in UnitReferences}

API_RequestExports(Path) == RemoteExports[Path]

Top == CallStack[Len(CallStack)]

\* The top of the stack goes on to its next reference.
NextReference(Stack) ==
    [Stack EXCEPT ![Len(Stack)] = [@ EXCEPT !.Refs = Tail(@)]]

\* LoadObject finds the asset of the reference.
LoadReference ==
    /\ CallStack # <<>>
    /\ ~Outcome.Crashed
    /\ Top.Refs # <<>>
    /\ Head(Top.Refs) \in Loadable
    /\ CallStack' = NextReference(CallStack)
    /\ UNCHANGED <<RemoteExports, Outcome, Loadable, log, AllJsonObjects, ParentClass, bFilterByOuter,
                   bCheckOuter, bSubgraph, phase, idx, EditorOnlyData, ExpressionNames,
                   Exports, CreatedExpressionMap, Objects, ExpressionCollection,
                   EditorComments>>

\* LoadObject finds nothing and HandleReference calls ConstructAsset: the
\* type is not supported, or it is a texture type, or the exports of the
\* asset are asked for and there are none, or they are imported, which
\* starts an import of that asset, or exhausts the call stack when it has
\* no room for one more.
ConstructAsset ==
    /\ CallStack # <<>>
    /\ ~Outcome.Crashed
    /\ Top.Refs # <<>>
    /\ Head(Top.Refs) \notin Loadable
    /\ LET Path == Head(Top.Refs)
           Type == TypeOf(Path)
       IN  \/ /\ Type \notin SupportedTypes
              /\ Outcome' = [NoOutcome EXCEPT !.Path = Path, !.Type = Type]
              /\ CallStack' = NextReference(CallStack)
              /\ UNCHANGED Loadable
           \/ /\ Type \in TextureTypes
              /\ \E Answer \in TextureAnswers, bMarkedDirty \in BOOLEAN :
                    Outcome' \in ConstructAssetTexture(Path, Type, Answer, bMarkedDirty)
              /\ Loadable' = IF Outcome'.OutObject = Path THEN Loadable \cup {Path}
                             ELSE Loadable
              /\ CallStack' = NextReference(CallStack)
           \/ /\ Type \in SupportedTypes \ TextureTypes
              /\ API_RequestExports(Path).IsEmpty
              /\ \E bSuccess \in BOOLEAN :
                    Outcome' = [NoOutcome EXCEPT !.Path = Path, !.Type = Type,
                                                 !.Return = TRUE, !.bSuccess = bSuccess]
              /\ CallStack' = NextReference(CallStack)
              /\ UNCHANGED Loadable
           \/ /\ Type \in SupportedTypes \ TextureTypes
              /\ ~API_RequestExports(Path).IsEmpty
              /\ Len(CallStack) < MaxDepth
              /\ CallStack' = Append(CallStack, Frame(Path, API_RequestExports(Path).Refs))
              /\ UNCHANGED <<Outcome, Loadable>>
           \/ /\ Type \in SupportedTypes \ TextureTypes
              /\ ~API_RequestExports(Path).IsEmpty
              /\ Len(CallStack) >= MaxDepth
              /\ Outcome' = [NoOutcome EXCEPT !.Path = Path, !.Type = Type,
                                              !.Crashed = TRUE, !.StackExhausted = TRUE]
              /\ UNCHANGED <<CallStack, Loadable>>
    /\ UNCHANGED <<RemoteExports, log, AllJsonObjects, ParentClass, bFilterByOuter,
                   bCheckOuter, bSubgraph, phase, idx, EditorOnlyData, ExpressionNames,
                   Exports, CreatedExpressionMap, Objects, ExpressionCollection,
                   EditorComments>>

\* HandleExports returns to ConstructAsset: the import it started is over,
\* StaticLoadObject looks for the asset, and the reference of the caller is
\* loaded again.
HandleExportsReturn ==
    /\ Len(CallStack) > 1
    /\ ~Outcome.Crashed
    /\ Top.Refs = <<>>
    /\ \E bSuccess \in BOOLEAN :
          /\ Outcome' = [NoOutcome EXCEPT !.Path = Top.Path, !.Type = TypeOf(Top.Path),
                                          !.Return = TRUE, !.bSuccess = bSuccess,
                                          !.OutObject = IF bSuccess THEN Top.Path ELSE "nullptr"]
          /\ Loadable' = IF bSuccess THEN Loadable \cup {Top.Path} ELSE Loadable
    /\ CallStack' = NextReference(SubSeq(CallStack, 1, Len(CallStack) - 1))
    /\ UNCHANGED <<RemoteExports, log, AllJsonObjects, ParentClass, bFilterByOuter,
                   bCheckOuter, bSubgraph, phase, idx, EditorOnlyData, ExpressionNames,
                   Exports, CreatedExpressionMap, Objects, ExpressionCollection,
                   EditorComments>>

\* The import the user started is over.
ImportReturn ==
    /\ Len(CallStack) = 1
    /\ ~Outcome.Crashed
    /\ Top.Refs = <<>>
    /\ CallStack' = <<>>
    /\ phase' = "Done"
    /\ UNCHANGED <<RemoteExports, Outcome, Loadable, log, AllJsonObjects, ParentClass, bFilterByOuter,
                   bCheckOuter, bSubgraph, idx, EditorOnlyData, ExpressionNames,
                   Exports, CreatedExpressionMap, Objects, ExpressionCollection,
                   EditorComments>>

\* The import of the asset /Game/A, whose expressions refer to assets that
\* are there to load or not.
InitRecovery ==
    /\ RemoteExports \in [{"/Game/A", "/Game/B"} -> Responses]
    /\ \E Refs \in UnitReferences : CallStack = <<Frame("/Game/A", Refs)>>
    /\ Outcome = NoOutcome
    /\ Loadable \in SUBSET {"/Game/B", "/Game/T"}
    /\ AllJsonObjects = <<>>
    /\ ParentClass = "MaterialFunction"
    /\ bFilterByOuter = FALSE
    /\ bCheckOuter = FALSE
    /\ bSubgraph = FALSE
    /\ phase = "Wire"
    /\ idx = 1
    /\ EditorOnlyData = <<>>
    /\ ExpressionNames = <<>>
    /\ Exports = EmptyObject
    /\ CreatedExpressionMap = EmptyObject
    /\ Objects = <<>>
    /\ ExpressionCollection = <<>>
    /\ EditorComments = <<>>
    /\ log = <<>>

NextRecovery ==
    \/ LoadReference
    \/ ConstructAsset
    \/ HandleExportsReturn
    \/ ImportReturn

\* The import and the imports it starts are one sequential call.
SpecRecovery == InitRecovery /\ [][NextRecovery]_vars /\ WF_vars(NextRecovery)

----------------------------------------------------------------------------
(* C28: the import ends when the recovery starts an import *)

\* C28: the chain of the nested imports does not exhaust the call stack
\* and the import the user started reaches its end, also when the recovery
\* of a missing asset imports a unit that refers to an asset whose import
\* is in progress and that cannot be loaded yet.
C28_RecoveryTerminates ==
    /\ [](~Outcome.StackExhausted)
    /\ <>(CallStack = <<>> \/ (Outcome.Crashed /\ ~Outcome.StackExhausted))

----------------------------------------------------------------------------
(* C30: what ConstructAsset leaves for a texture *)

\* C30: when ConstructAsset has returned true with bSuccess true for a
\* texture type, OutObject is the texture Construct_TypeTexture imported.
C30_SuccessMeansTexture ==
    (Outcome.Type \in TextureTypes /\ Outcome.Return /\ Outcome.bSuccess /\ ~Outcome.Crashed) =>
        Outcome.OutObject = Outcome.Path

====
